---- MODULE Spec2Model ----
(***************************************************************************)
(* Model of the d2 parser (d2parser/parse.go) and of the position model    *)
(* of d2ast it is built on.                                                *)
(*                                                                         *)
(* A rune is a one-element string; text is a sequence of runes.  The       *)
(* parser struct is the record p; every method of the parser is an         *)
(* operator that takes the record and returns the new record together      *)
(* with the method's results.  Loops are recursive operators.              *)
(***************************************************************************)
EXTENDS Integers, Sequences, FiniteSets, TLC

VARIABLES
    input,      \* the runes the io.RuneReader will deliver
    failAt,     \* number of runes delivered before the reader fails; -1: never
    p,          \* the parser struct
    result,     \* what Parse returned: [m |-> root map, err |-> error]
    pc,         \* "start", "done" (Parse), "cursor" (cursor engine runs) or
                \* "text", "trimmed", "retrimmed" (dedent runs)
    lastOp,     \* cursor runs: the last cursor operation and what it returned
    mark        \* cursor runs: snapshot taken when no peek was outstanding

vars == <<input, failAt, p, result, pc, lastOp, mark>>

NIL == [kind |-> "nil"]
NoRune == "NUL"

(***************************************************************************)
(* Runes.                                                                  *)
(***************************************************************************)
Wide2 == "U+00E9"     \* 2 bytes in UTF-8, 1 UTF-16 code unit
Wide4 == "U+1F600"    \* 4 bytes in UTF-8, 2 UTF-16 code units (surrogates)

Digits == {"0", "1", "2", "3", "4", "5", "6", "7", "8", "9"}
Lower == <<"a", "b", "c", "d", "e", "f", "g", "h", "i", "j", "k", "l", "m",
           "n", "o", "p", "q", "r", "s", "t", "u", "v", "w", "x", "y", "z">>
Upper == <<"A", "B", "C", "D", "E", "F", "G", "H", "I", "J", "K", "L", "M",
           "N", "O", "P", "Q", "R", "S", "T", "U", "V", "W", "X", "Y", "Z">>
Letters == {Lower[i] : i \in 1..26} \cup {Upper[i] : i \in 1..26} \cup {Wide2}

\* unicode.IsSpace on the runes of the model
VTab == "U+000B"
IsSpace(r) == r \in {" ", "\n", "\t", "\r", "\f", VTab}
IsDigit(r) == r \in Digits
IsLetter(r) == r \in Letters

RuneLen(r) == IF r = Wide2 THEN 2 ELSE IF r = Wide4 THEN 4 ELSE 1
Utf16Len(r) == IF r = Wide4 THEN 2 ELSE 1
RuneSize(r, byUTF16) == IF byUTF16 THEN Utf16Len(r) ELSE RuneLen(r)

(***************************************************************************)
(* d2ast.Position                                                          *)
(***************************************************************************)
Pos0 == [line |-> 0, column |-> 0, byte |-> 0]

Advance(pos, r, byUTF16) ==
    LET size == RuneSize(r, byUTF16)
    IN  IF r = "\n"
        THEN [line |-> pos.line + 1, column |-> 0, byte |-> pos.byte + size]
        ELSE [line |-> pos.line, column |-> pos.column + size,
              byte |-> pos.byte + size]

\* Subtracting a newline panics; the panic is the position PanicPos.
PanicPos == [line |-> -1, column |-> -1, byte |-> -1]

Subtract(pos, r, byUTF16) ==
    LET size == RuneSize(r, byUTF16)
    IN  IF r = "\n" \/ pos = PanicPos
        THEN PanicPos
        ELSE [line |-> pos.line, column |-> pos.column - size,
              byte |-> pos.byte - size]

RECURSIVE SubtractString(_, _, _)
SubtractString(pos, s, byUTF16) ==
    IF s = <<>> THEN pos
    ELSE SubtractString(Subtract(pos, Head(s), byUTF16), Tail(s), byUTF16)

RECURSIVE AdvanceString(_, _, _)
AdvanceString(pos, s, byUTF16) ==
    IF s = <<>> THEN pos
    ELSE AdvanceString(Advance(pos, Head(s), byUTF16), Tail(s), byUTF16)

(***************************************************************************)
(* io.RuneReader: strings.Reader over data, failing with a non-EOF error   *)
(* on the call after failAt runes when failAt >= 0.                        *)
(***************************************************************************)
\* calls, erred and lateCalls are history: the calls made, whether one
\* returned an error, and the calls made after that.
NewReader(data, fail) ==
    [data |-> data, idx |-> 0, failAt |-> fail,
     calls |-> 0, erred |-> FALSE, lateCalls |-> 0]

\* the reader after one more call
Counted(rd) ==
    [rd EXCEPT !.calls = @ + 1, !.lateCalls = IF rd.erred THEN @ + 1 ELSE @]

ReadRune(rd) ==
    IF rd.failAt >= 0 /\ rd.idx >= rd.failAt
    THEN [reader |-> [Counted(rd) EXCEPT !.erred = TRUE], r |-> NoRune,
          err |-> "io"]
    ELSE IF rd.idx >= Len(rd.data)
    THEN [reader |-> [Counted(rd) EXCEPT !.erred = TRUE], r |-> NoRune,
          err |-> "EOF"]
    ELSE [reader |-> [Counted(rd) EXCEPT !.idx = @ + 1],
          r |-> rd.data[rd.idx + 1], err |-> "nil"]

(***************************************************************************)
(* The parser struct.  Fields starting with g are history fields: they     *)
(* record what happened and never influence the parser.                    *)
(***************************************************************************)
NewParser(data, fail, byUTF16) ==
    [pos |-> Pos0, utf16 |-> byUTF16,
     reader |-> NewReader(data, fail), readerPos |-> Pos0,
     readahead |-> <<>>, lookahead |-> <<>>, lookaheadPos |-> Pos0,
     ioerr |-> FALSE, ioError |-> NIL, errs |-> <<>>,
     inEdgeGroup |-> FALSE, depth |-> 0,
     gIOErrors |-> 0,       \* times the fatal error slot was written
     gEofSeen |-> FALSE,    \* a read or peek has reported end-of-stream
     gLateRunes |-> 0,      \* runes delivered by read or peek after that
     gPanic |-> FALSE,      \* a newline was subtracted from a position
     gCalled |-> 0,         \* grammar function entries and returns
     gUnresolved |-> 0,     \* of these, with peeks outstanding
     gIterated |-> 0,       \* iterations of the parsing loops that went on
     gStalled |-> 0]        \* of these, without a rune taken from the stream

\* ParseError.empty
emptyIgnoringIOError(q) == Len(q.errs) = 0
empty(q) == q.ioError = NIL /\ Len(q.errs) = 0

\* errorf: f is the format, v its arguments
errorf(q, start, end, f, v) ==
    [q EXCEPT !.errs = Append(@, [range |-> [start |-> start, end |-> end],
                                  f |-> f, v |-> v])]

(***************************************************************************)
(* Cursor engine                                                           *)
(***************************************************************************)
rewindKeepingLookaheadPos(q) ==
    IF Len(q.lookahead) = 0 THEN q
    ELSE [q EXCEPT !.readahead = q.lookahead \o q.readahead,
                   !.lookahead = <<>>]

rewindBehindPending(q) ==
    IF Len(q.lookahead) = 0 THEN q
    ELSE [q EXCEPT !.readahead = q.readahead \o q.lookahead,
                   !.lookahead = <<>>,
                   !.lookaheadPos = q.pos]

rewind(q) ==
    IF Len(q.lookahead) = 0 THEN q
    ELSE [q EXCEPT !.readahead = q.lookahead \o q.readahead,
                   !.lookahead = <<>>,
                   !.lookaheadPos = q.pos]

commitKeepingPos(q) == [q EXCEPT !.lookahead = <<>>]

commit(q) ==
    [q EXCEPT !.pos = q.lookaheadPos, !.lookahead = <<>>]

\* _readRune from the answer rr of the reader on: q1 is the parser with
\* readerPos set
readRuneAnswerRecordingEOF(q1, rr) ==
    IF rr.err # "nil"
    THEN [p |-> rewind([q1 EXCEPT
                   !.reader = rr.reader,
                   !.ioerr = TRUE,
                   !.ioError = [range |-> [start |-> q1.readerPos,
                                           end |-> q1.readerPos],
                                f |-> "io error: %v", v |-> <<rr.err>>],
                   !.gIOErrors = @ + 1]),
          r |-> NoRune, eof |-> TRUE]
    ELSE [p |-> [q1 EXCEPT !.reader = rr.reader], r |-> rr.r, eof |-> FALSE]

readRuneAnswer(q1, rr) ==
    IF rr.err # "nil"
    THEN [p |-> rewind([q1 EXCEPT
                   !.reader = rr.reader,
                   !.ioerr = TRUE,
                   !.ioError = IF rr.err # "EOF"
                               THEN [range |-> [start |-> q1.readerPos,
                                                end |-> q1.readerPos],
                                     f |-> "io error: %v", v |-> <<rr.err>>]
                               ELSE @,
                   !.gIOErrors = IF rr.err # "EOF" THEN @ + 1 ELSE @]),
          r |-> NoRune, eof |-> TRUE]
    ELSE [p |-> [q1 EXCEPT !.reader = rr.reader], r |-> rr.r, eof |-> FALSE]

_readRuneAfterEOF(q) ==
    IF Len(q.readahead) > 0
    THEN [p |-> [q EXCEPT !.readahead = Tail(@)], r |-> Head(q.readahead),
          eof |-> FALSE]
    ELSE readRuneAnswer([q EXCEPT !.readerPos = q.lookaheadPos],
                        ReadRune(q.reader))

_readRuneRecordingEOF(q) ==
    IF Len(q.readahead) > 0
    THEN [p |-> [q EXCEPT !.readahead = Tail(@)], r |-> Head(q.readahead),
          eof |-> FALSE]
    ELSE IF q.ioerr
    THEN [p |-> rewind(q), r |-> NoRune, eof |-> TRUE]
    ELSE readRuneAnswerRecordingEOF([q EXCEPT !.readerPos = q.lookaheadPos],
                                    ReadRune(q.reader))

_readRune(q) ==
    IF Len(q.readahead) > 0
    THEN [p |-> [q EXCEPT !.readahead = Tail(@)], r |-> Head(q.readahead),
          eof |-> FALSE]
    ELSE IF q.ioerr
    THEN [p |-> rewind(q), r |-> NoRune, eof |-> TRUE]
    ELSE readRuneAnswer([q EXCEPT !.readerPos = q.lookaheadPos],
                        ReadRune(q.reader))

\* History of what read and peek reported to the grammar.
Reported(x) ==
    [x EXCEPT !.p.gEofSeen = @ \/ x.eof,
              !.p.gLateRunes = IF ~x.eof /\ x.p.gEofSeen THEN @ + 1 ELSE @]

\* read from the answer x of _readRune on
readAnswer(x) ==
    IF x.eof THEN Reported(x)
    ELSE Reported([x EXCEPT
             !.p.pos = Advance(x.p.pos, x.r, x.p.utf16),
             !.p.lookaheadPos = Advance(x.p.pos, x.r, x.p.utf16)])

readKeepingPos(q) == Reported(_readRune(q))

read(q) == readAnswer(_readRune(q))

replayKeepingPos(q, r) ==
    rewind([q EXCEPT !.gPanic = @ \/ r = "\n",
                     !.lookahead = <<r>> \o @])

replay(q, r) ==
    rewind([q EXCEPT !.pos = Subtract(q.pos, r, q.utf16),
                     !.gPanic = @ \/ r = "\n",
                     !.lookahead = <<r>> \o @])

\* peek from the answer x of _readRune on
peekAnswer(x) ==
    IF x.eof THEN Reported(x)
    ELSE Reported([x EXCEPT
             !.p.lookahead = Append(@, x.r),
             !.p.lookaheadPos = Advance(@, x.r, x.p.utf16)])

peek(q) == peekAnswer(_readRune(q))

\* peekn returns the runes peeked as s
RECURSIVE peeknLoop(_, _, _)
peeknStep(x, n, sb) ==
    IF x.eof THEN [p |-> x.p, s |-> sb, eof |-> TRUE]
    ELSE peeknLoop(x.p, n - 1, Append(sb, x.r))

peeknLoop(q, n, sb) ==
    IF n <= 0 THEN [p |-> q, s |-> sb, eof |-> FALSE]
    ELSE peeknStep(peek(q), n, sb)

peekn(q, n) == peeknLoop(q, n, <<>>)

RECURSIVE readNotSpace(_)
readNotSpaceStep(x) ==
    IF x.eof THEN x
    ELSE IF IsSpace(x.r) THEN readNotSpace(x.p)
    ELSE x

readNotSpace(q) == readNotSpaceStep(read(q))

RECURSIVE peekNotSpaceLoop(_, _)
peekNotSpaceStep(x, newlines) ==
    IF x.eof THEN [p |-> x.p, r |-> NoRune, newlines |-> 0, eof |-> TRUE]
    ELSE IF IsSpace(x.r)
    THEN peekNotSpaceLoop(x.p, IF x.r = "\n" THEN newlines + 1 ELSE newlines)
    ELSE [p |-> x.p, r |-> x.r, newlines |-> newlines, eof |-> FALSE]

peekNotSpaceLoop(q, newlines) == peekNotSpaceStep(peek(q), newlines)

peekNotSpace(q) == peekNotSpaceLoop(q, 0)

\* Every grammar function passes through Called on entry and on return: the
\* history of whether a peek was outstanding between grammar decisions.
Called(q) ==
    [q EXCEPT !.gCalled = @ + 1,
              !.gUnresolved = IF Len(q.lookahead) # 0 \/ q.lookaheadPos # q.pos
                              THEN @ + 1 ELSE @]

Ret(x) == [x EXCEPT !.p = Called(x.p)]

\* A parsing loop goes on to its next iteration with the parser x: from is
\* the parser at the head of the iteration that ends.
Iterated(from, x) ==
    [x EXCEPT !.gIterated = @ + 1,
              !.gStalled = IF x.lookaheadPos.byte > from.lookaheadPos.byte
                           THEN @ ELSE @ + 1]

\* The same when from is the parser after the read at the head of the
\* iteration.
IteratedAfterRead(from, x) ==
    [x EXCEPT !.gIterated = @ + 1,
              !.gStalled = IF x.lookaheadPos.byte >= from.lookaheadPos.byte
                           THEN @ ELSE @ + 1]

decKeepingDepth(q) == q

dec(q) == [q EXCEPT !.depth = @ - 1]

(***************************************************************************)
(* String helpers                                                          *)
(***************************************************************************)
Repeat(r, n) == [i \in 1..n |-> r]

\* strings.TrimRightFunc(s, unicode.IsSpace)
RECURSIVE TrimRightSpace(_)
TrimRightSpace(s) ==
    IF s = <<>> THEN s
    ELSE IF IsSpace(s[Len(s)]) THEN TrimRightSpace(SubSeq(s, 1, Len(s) - 1))
    ELSE s

\* strings.LastIndexByte(s, '\n'), one-based; 0 when absent
LastNewline(s) ==
    LET I == {i \in 1..Len(s) : s[i] = "\n"}
    IN  IF I = {} THEN 0 ELSE CHOOSE i \in I : \A j \in I : j <= i

trimSpaceAfterLastNewline(s) ==
    LET lastNewline == LastNewline(s)
    IN  IF lastNewline = 0 THEN TrimRightSpace(s)
        ELSE LET lastLine == TrimRightSpace(SubSeq(s, lastNewline + 1, Len(s)))
             IN  IF Len(lastLine) = 0 THEN SubSeq(s, 1, lastNewline - 1)
                 ELSE SubSeq(s, 1, lastNewline) \o lastLine

\* strings.Split(s, "\n")
RECURSIVE SplitLines(_, _, _)
SplitLines(s, cur, acc) ==
    IF s = <<>> THEN Append(acc, cur)
    ELSE IF Head(s) = "\n" THEN SplitLines(Tail(s), <<>>, Append(acc, cur))
    ELSE SplitLines(Tail(s), Append(cur, Head(s)), acc)

\* strings.Join(lines, "\n")
RECURSIVE JoinLines(_)
JoinLines(lines) ==
    IF Len(lines) = 0 THEN <<>>
    ELSE IF Len(lines) = 1 THEN lines[1]
    ELSE lines[1] \o <<"\n">> \o JoinLines(Tail(lines))

RECURSIVE splitLeadingIndentLoop(_, _, _, _)
splitLeadingIndentLoop(s, maxSpaces, i, indentb) ==
    IF i >= Len(s) THEN [indent |-> indentb, rets |-> SubSeq(s, i + 1, Len(s))]
    ELSE LET r == s[i + 1]
         IN  IF ~IsSpace(r)
             THEN [indent |-> indentb, rets |-> SubSeq(s, i + 1, Len(s))]
             ELSE LET indent2 == IF r # "\t" THEN Append(indentb, r)
                                 ELSE indentb \o <<" ", " ">>
                  IN  IF maxSpaces > -1 /\ Len(indent2) = maxSpaces
                      THEN [indent |-> indent2,
                            rets |-> SubSeq(s, i + 2, Len(s))]
                      ELSE splitLeadingIndentLoop(s, maxSpaces, i + 1, indent2)

splitLeadingIndent(s, maxSpaces) == splitLeadingIndentLoop(s, maxSpaces, 0, <<>>)

trimIndentByOne(s, indent) ==
    LET lines == SplitLines(s, <<>>, <<>>)
    IN  JoinLines([i \in 1..Len(lines) |->
                     IF lines[i] = <<>> THEN lines[i]
                     ELSE splitLeadingIndent(lines[i], 1).rets])

trimIndent(s, indent) ==
    LET lines == SplitLines(s, <<>>, <<>>)
    IN  JoinLines([i \in 1..Len(lines) |->
                     IF lines[i] = <<>> THEN lines[i]
                     ELSE splitLeadingIndent(lines[i], Len(indent)).rets])

\* the loop of trimCommonIndent: the common indent, or stop when a line has
\* no indent
RECURSIVE commonIndentLoop(_, _)
commonIndentLoop(lines, commonIndent) ==
    IF Len(lines) = 0 THEN [stop |-> FALSE, commonIndent |-> commonIndent]
    ELSE LET l == Head(lines)
             sp == splitLeadingIndent(l, -1)
         IN  IF l = <<>> THEN commonIndentLoop(Tail(lines), commonIndent)
             ELSE IF sp.indent = <<>>
             THEN [stop |-> TRUE, commonIndent |-> commonIndent]
             ELSE IF sp.rets = <<>>
             THEN commonIndentLoop(Tail(lines), commonIndent)
             ELSE IF commonIndent = <<>> \/ Len(sp.indent) < Len(commonIndent)
             THEN commonIndentLoop(Tail(lines), sp.indent)
             ELSE commonIndentLoop(Tail(lines), commonIndent)

trimCommonIndent(s) ==
    LET c == commonIndentLoop(SplitLines(s, <<>>, <<>>), <<>>)
    IN  IF c.stop \/ c.commonIndent = <<>> THEN s
        ELSE trimIndent(s, c.commonIndent)

getIndent(q) == Repeat(" ", q.depth * 2)

decodeEscape(r2) ==
    CASE r2 = "a" -> "U+0007"
      [] r2 = "b" -> "U+0008"
      [] r2 = "f" -> "\f"
      [] r2 = "n" -> "\n"
      [] r2 = "r" -> "\r"
      [] r2 = "t" -> "\t"
      [] r2 = "v" -> VTab
      [] OTHER -> r2

(***************************************************************************)
(* d2ast nodes.  A box is the node it holds, or NIL.                       *)
(***************************************************************************)
Range(start, end) == [start |-> start, end |-> end]

\* Node.Type()
Type(n) ==
    CASE n.kind = "comment" -> [tag |-> <<>>, name |-> "comment"]
      [] n.kind = "block_comment" -> [tag |-> <<>>, name |-> "block comment"]
      [] n.kind = "null" -> [tag |-> <<>>, name |-> "null"]
      [] n.kind = "boolean" -> [tag |-> <<>>, name |-> "boolean"]
      [] n.kind = "number" -> [tag |-> <<>>, name |-> "number"]
      [] n.kind = "unquoted_string" -> [tag |-> <<>>, name |-> "unquoted string"]
      [] n.kind = "double_quoted_string" ->
             [tag |-> <<>>, name |-> "double quoted string"]
      [] n.kind = "single_quoted_string" ->
             [tag |-> <<>>, name |-> "single quoted string"]
      [] n.kind = "block_string" -> [tag |-> n.tag, name |-> " block string"]
      [] n.kind = "substitution" -> [tag |-> <<>>, name |-> "substitution"]
      [] n.kind = "array" -> [tag |-> <<>>, name |-> "array"]
      [] n.kind = "map" -> [tag |-> <<>>, name |-> "map"]
      [] n.kind = "key" -> [tag |-> <<>>, name |-> "map key"]
      [] n.kind = "key_path" -> [tag |-> <<>>, name |-> "key path"]
      [] n.kind = "edge" -> [tag |-> <<>>, name |-> "edge"]
      [] n.kind = "edge_index" -> [tag |-> <<>>, name |-> "edge index"]

\* InterpolationBox: hasString and hasRaw tell whether String and StringRaw
\* are set
StringPart(sv, rawv) ==
    [hasString |-> TRUE, string |-> sv, hasRaw |-> TRUE, raw |-> rawv,
     substitution |-> NIL]
StringOnlyPart(sv) ==
    [hasString |-> TRUE, string |-> sv, hasRaw |-> FALSE, raw |-> <<>>,
     substitution |-> NIL]
SubstPart(subst) ==
    [hasString |-> FALSE, string |-> <<>>, hasRaw |-> FALSE, raw |-> <<>>,
     substitution |-> subst]

\* ScalarString of unquoted and double quoted strings
InterpolatedScalarString(s) ==
    IF Len(s.value) = 0 THEN <<>>
    ELSE IF ~s.value[1].hasString THEN <<>>
    ELSE s.value[1].string

ScalarString(n) ==
    IF n.kind \in {"unquoted_string", "double_quoted_string"}
    THEN InterpolatedScalarString(n)
    ELSE n.value

IsScalar(n) ==
    n.kind \in {"null", "boolean", "number", "unquoted_string",
                "double_quoted_string", "single_quoted_string", "block_string"}

(***************************************************************************)
(* Grammar functions.  Each returns [p |-> parser, n |-> node or NIL].     *)
(***************************************************************************)
RECURSIVE Call(_, _)
RECURSIVE parseMapLoop(_, _, _), parseKeyLoop(_, _),
          parseUnquotedStringLoop(_, _, _),
          parseDoubleQuotedStringLoop(_, _, _), parseArrayLoop(_, _)

RECURSIVE parseCommentLine(_, _, _)
parseCommentLineKeepingSpace(q, sb, firstRune) ==
    LET x == Call("peek", <<q>>)
    IN  IF x.eof THEN [p |-> x.p, sb |-> sb]
        ELSE IF x.r = "\n" THEN [p |-> rewind(x.p), sb |-> sb]
        ELSE parseCommentLine(Iterated(q, commit(x.p)), Append(sb, x.r), FALSE)

parseCommentLine(q, sb, firstRune) ==
    LET x == Call("peek", <<q>>)
    IN  IF x.eof THEN [p |-> x.p, sb |-> sb]
        ELSE IF x.r = "\n" THEN [p |-> rewind(x.p), sb |-> sb]
        ELSE IF firstRune /\ x.r = " "
        THEN parseCommentLine(Iterated(q, commit(x.p)), sb, FALSE)
        ELSE parseCommentLine(Iterated(q, commit(x.p)), Append(sb, x.r), FALSE)

RECURSIVE parseCommentLoop(_, _)
parseCommentLoop(q, sb) ==
    LET x == Call("peekNotSpace", <<q>>)
    IN  IF x.eof THEN [p |-> x.p, sb |-> sb]
        ELSE IF x.r # "#" \/ x.newlines >= 2 THEN [p |-> rewind(x.p), sb |-> sb]
        ELSE LET sb1 == IF x.newlines = 1 THEN Append(sb, "\n") ELSE sb
                 l == parseCommentLine(commit(x.p), sb1, TRUE)
             IN  parseCommentLoop(Iterated(q, l.p), l.sb)

parseComment(q0) ==
    LET q == Called(q0)
        start == Subtract(q.pos, "#", q.utf16)
        l == parseCommentLine(q, <<>>, TRUE)
        c == parseCommentLoop(l.p, l.sb)
    IN  Ret([p |-> c.p,
             n |-> [kind |-> "comment", range |-> Range(start, c.p.pos),
                    value |-> c.sb]])

\* first loop of parseBlockComment: skip the whitespace up to the first newline
RECURSIVE blockCommentSkip(_)
blockCommentSkip(q) ==
    LET x == Call("peek", <<q>>)
    IN  IF x.eof THEN [p |-> x.p, eof |-> TRUE]
        ELSE IF ~IsSpace(x.r) THEN [p |-> rewind(x.p), eof |-> FALSE]
        ELSE IF x.r = "\n" THEN [p |-> commit(x.p), eof |-> FALSE]
        ELSE blockCommentSkip(Iterated(q, commit(x.p)))

\* second loop of parseBlockComment: ok is FALSE when the stream ended
RECURSIVE blockCommentBody(_, _)
blockCommentBody(q, sb) ==
    LET x == Call("read", <<q>>)
    IN  IF x.eof THEN [p |-> x.p, sb |-> sb, ok |-> FALSE]
        ELSE IF x.r # "\"" THEN blockCommentBody(Iterated(q, x.p), Append(sb, x.r))
        ELSE LET y == Call("peekn", <<x.p, 2>>)
             IN  IF y.eof THEN [p |-> y.p, sb |-> sb, ok |-> FALSE]
                 ELSE IF y.s # <<"\"", "\"">>
                 THEN blockCommentBody(Iterated(q, rewind(y.p)), Append(sb, "\""))
                 ELSE [p |-> commit(y.p), sb |-> sb, ok |-> TRUE]

BlockCommentNode(start, q, sb) ==
    [kind |-> "block_comment", range |-> Range(start, q.pos),
     value |-> trimCommonIndent(trimSpaceAfterLastNewline(sb))]

parseBlockComment(q0) ==
    LET q == Called(q0)
        start == SubtractString(q.pos, <<"\"", "\"", "\"">>, q.utf16)
        q1 == [q EXCEPT !.depth = @ + 1]
        unterminated == "block comments must be terminated with \"\"\""
        sk == blockCommentSkip(q1)
    IN  IF sk.eof
        THEN LET q2 == dec(errorf(sk.p, start, sk.p.readerPos, unterminated, <<>>))
             IN  Ret([p |-> q2, n |-> BlockCommentNode(start, q2, <<>>)])
        ELSE LET b == blockCommentBody(sk.p, <<>>)
                 q2 == dec(IF b.ok THEN b.p
                           ELSE errorf(b.p, start, b.p.readerPos, unterminated,
                                       <<>>))
             IN  Ret([p |-> q2, n |-> BlockCommentNode(start, q2, b.sb)])

RECURSIVE eatLine(_, _)
eatLineThroughTerminator(q, terminator) ==
    LET x == Call("peekNotSpace", <<q>>)
    IN  IF x.eof \/ x.newlines # 0 \/ x.r = ";" \/ x.r = "#"
        THEN rewind(x.p)
        ELSE eatLine(Iterated(q, commit(x.p)), terminator)

\* the loop after a map or array node that eats the rest of the line
eatLine(q, terminator) ==
    LET x == Call("peekNotSpace", <<q>>)
    IN  IF x.eof \/ x.newlines # 0 \/ x.r = ";" \/ x.r = terminator \/ x.r = "#"
        THEN rewind(x.p)
        ELSE eatLine(Iterated(q, commit(x.p)), terminator)

parseMapLoop(q, m, isFileMap) ==
    LET x == Call("readNotSpace", <<q>>)
    IN  IF x.eof
        THEN [p |-> IF ~isFileMap
                    THEN errorf(x.p, m.range.start, x.p.readerPos,
                                "maps must be terminated with }", <<>>)
                    ELSE x.p,
              m |-> m]
        ELSE IF x.r = ";" THEN parseMapLoop(Iterated(q, x.p), m, isFileMap)
        ELSE IF x.r = "}"
        THEN IF isFileMap
             THEN parseMapLoop(Iterated(q,
                      errorf(x.p, Subtract(x.p.pos, x.r, x.p.utf16), x.p.pos,
                             "unexpected map termination character } in file map",
                             <<>>)),
                      m, isFileMap)
             ELSE [p |-> x.p, m |-> m]
        ELSE LET y == Call("parseMapNode", <<x.p, x.r>>)
                 n == y.n
                 m1 == IF n # NIL THEN [m EXCEPT !.nodes = Append(@, n)] ELSE m
             IN  IF n.kind = "block_comment"
                 THEN parseMapLoop(Iterated(q, y.p), m1, isFileMap)
                 ELSE LET after == y.p.pos
                          q1 == eatLine(y.p, "}")
                          q2 == IF after = q1.pos THEN q1
                                ELSE IF n # NIL
                                THEN IF n.kind = "key" /\ n.value # NIL
                                     THEN errorf(q1, after, q1.pos,
                                                 "unexpected text after %v",
                                                 <<Type(n.value)>>)
                                     ELSE errorf(q1, after, q1.pos,
                                                 "unexpected text after %v",
                                                 <<Type(n)>>)
                                ELSE errorf(q1, after, q1.pos,
                                            "invalid text beginning unquoted key",
                                            <<>>)
                      IN  parseMapLoop(Iterated(q, q2), m1, isFileMap)

parseMap(q0, isFileMap) ==
    LET q == Called(q0)
        start == IF isFileMap THEN q.pos ELSE Subtract(q.pos, "{", q.utf16)
        q1 == IF isFileMap THEN q ELSE [q EXCEPT !.depth = @ + 1]
        l == parseMapLoop(q1, [kind |-> "map", range |-> Range(start, Pos0),
                               nodes |-> <<>>], isFileMap)
        q2 == IF isFileMap THEN l.p ELSE dec(l.p)
    IN  Ret([p |-> q2, n |-> [l.m EXCEPT !.range.end = q2.readerPos]])

parseMapNode(q0, r) ==
    LET q == Called(q0)
        \* the switch: done when a node was parsed, else the parser to go on with
        sw == IF r = "#" THEN [done |-> TRUE, x |-> Call("parseComment", <<q>>)]
              ELSE IF r = "\""
              THEN LET y == Call("peekn", <<q, 2>>)
                   IN  IF y.eof THEN [done |-> FALSE, p |-> y.p]
                       ELSE IF y.s # <<"\"", "\"">>
                       THEN [done |-> FALSE, p |-> rewind(y.p)]
                       ELSE [done |-> TRUE, x |-> Call("parseBlockComment", <<commit(y.p)>>)]
              ELSE IF r = "."
              THEN LET y == Call("peekn", <<q, 3>>)
                   IN  IF y.eof THEN [done |-> FALSE, p |-> y.p]
                       ELSE IF y.s # <<".", ".", "$">>
                       THEN [done |-> FALSE, p |-> rewind(y.p)]
                       ELSE [done |-> TRUE,
                             x |-> Call("parseSubstitution", <<commit(y.p), TRUE>>)]
              ELSE [done |-> FALSE, p |-> q]
    IN  IF sw.done THEN Ret(sw.x)
        ELSE Ret(Call("parseMapKey", <<replay(sw.p, r)>>))

NewKey(start) ==
    [kind |-> "key", range |-> Range(start, Pos0), ampersand |-> FALSE,
     key |-> NIL, edges |-> <<>>, edgeIndex |-> NIL, edgeKey |-> NIL,
     primary |-> NIL, value |-> NIL]

retMapKeyAlways(q, mk) == Ret([p |-> q, n |-> [mk EXCEPT !.range.end = q.pos]])

\* the deferred functions of parseMapKey
retMapKey(q, mk) ==
    Ret([p |-> q,
         n |-> IF mk.key = NIL /\ Len(mk.edges) = 0 THEN NIL
               ELSE [mk EXCEPT !.range.end = q.pos]])

parseMapKey(q0) ==
    LET q == Called(q0)
        mk0 == NewKey(q.pos)
        a == Call("peek", <<q>>)
    IN  IF a.eof THEN retMapKey(a.p, mk0)
        ELSE
        LET q1 == IF a.r # "&" THEN rewind(a.p) ELSE commit(a.p)
            mk1 == [mk0 EXCEPT !.ampersand = (a.r = "&")]
            b == Call("peek", <<q1>>)
        IN  IF b.eof THEN retMapKey(b.p, mk1)
            ELSE IF b.r = "("
            THEN LET g == Call("parseEdgeGroup", <<commit(b.p), mk1>>)
                 IN  retMapKey(g.p, g.mk)
            ELSE
            LET k == Call("parseKey", <<rewind(b.p)>>)
                mk2 == [mk1 EXCEPT !.key = k.n]
                c == Call("peekNotSpace", <<k.p>>)
            IN  IF c.eof THEN retMapKey(c.p, mk2)
                ELSE IF c.newlines > 0 THEN retMapKey(rewind(c.p), mk2)
                ELSE IF c.r = "("
                THEN LET g == Call("parseEdgeGroup", <<commit(c.p), mk2>>)
                     IN  retMapKey(g.p, g.mk)
                ELSE IF c.r \in {"<", ">", "-"}
                THEN LET e == Call("parseEdges", <<rewind(c.p), [mk2 EXCEPT !.key = NIL],
                                         k.n>>)
                         v == Call("parseMapKeyValue", <<e.p, e.mk>>)
                     IN  retMapKey(v.p, v.mk)
                ELSE LET v == Call("parseMapKeyValue", <<rewind(c.p), mk2>>)
                     IN  retMapKey(v.p, v.mk)

parseMapKeyValueWithoutPrimary(q0, mk) ==
    LET q == Called(q0)
        x == Call("peekNotSpace", <<q>>)
        noKey == mk.key = NIL /\ Len(mk.edges) = 0
    IN  IF x.eof THEN Ret([p |-> x.p, mk |-> mk])
        ELSE IF x.newlines > 0 \/ (x.r = "{" /\ noKey) \/ x.r \notin {"{", ":"}
        THEN Ret([p |-> rewind(x.p), mk |-> mk])
        ELSE
        LET q1 == IF x.r = "{" THEN rewind(x.p)
                  ELSE IF noKey
                  THEN errorf(commit(x.p), mk.range.start, commit(x.p).pos,
                              "map value without key", <<>>)
                  ELSE commit(x.p)
            v == Call("parseValue", <<q1>>)
        IN  Ret([p |-> IF v.n = NIL
                       THEN errorf(v.p, Subtract(v.p.pos, ":", v.p.utf16), v.p.pos,
                                   "missing value after colon", <<>>)
                       ELSE v.p,
                 mk |-> [mk EXCEPT !.value = v.n]])

parseMapKeyValue(q0, mk) ==
    LET q == Called(q0)
        x == Call("peekNotSpace", <<q>>)
        noKey == mk.key = NIL /\ Len(mk.edges) = 0
    IN  IF x.eof THEN Ret([p |-> x.p, mk |-> mk])
        ELSE IF x.newlines > 0 THEN Ret([p |-> rewind(x.p), mk |-> mk])
        ELSE IF x.r = "{" /\ noKey THEN Ret([p |-> rewind(x.p), mk |-> mk])
        ELSE IF x.r \notin {"{", ":"} THEN Ret([p |-> rewind(x.p), mk |-> mk])
        ELSE
        LET q1 == IF x.r = "{" THEN rewind(x.p)
                  ELSE IF noKey
                  THEN errorf(commit(x.p), mk.range.start, commit(x.p).pos,
                              "map value without key", <<>>)
                  ELSE commit(x.p)
            v == Call("parseValue", <<q1>>)
            q2 == IF v.n = NIL
                  THEN errorf(v.p, Subtract(v.p.pos, ":", v.p.utf16), v.p.pos,
                              "missing value after colon", <<>>)
                  ELSE v.p
            mk1 == [mk EXCEPT !.value = v.n]
        IN  IF ~IsScalar(v.n) THEN Ret([p |-> q2, mk |-> mk1])
            ELSE LET y == Call("peekNotSpace", <<q2>>)
                 IN  IF y.eof \/ y.newlines > 0 \/ y.r # "{"
                     THEN Ret([p |-> rewind(y.p), mk |-> mk1])
                     ELSE LET v2 == Call("parseValue", <<replay(commit(y.p), y.r)>>)
                          IN  Ret([p |-> v2.p,
                                   mk |-> [mk1 EXCEPT !.primary = v.n,
                                                      !.value = v2.n]])

\* strconv.Atoi of a string of digits
RECURSIVE Atoi(_)
Atoi(sb) ==
    IF sb = <<>> THEN 0
    ELSE 10 * Atoi(SubSeq(sb, 1, Len(sb) - 1))
         + (CHOOSE d \in 0..9 : ToString(d) = sb[Len(sb)])

\* the digit loop of parseEdgeIndex: ok is FALSE on "unterminated edge index"
RECURSIVE edgeIndexDigits(_, _, _)
edgeIndexDigits(q, start, sb) ==
    LET x == Call("peekNotSpace", <<q>>)
    IN  IF x.eof \/ x.newlines > 0
        THEN [p |-> errorf(rewind(x.p), start, rewind(x.p).pos,
                           "unterminated edge index", <<>>),
              sb |-> sb, ok |-> FALSE]
        ELSE IF x.r = "]" THEN [p |-> rewind(x.p), sb |-> sb, ok |-> TRUE]
        ELSE LET q1 == commit(x.p)
             IN  IF ~IsDigit(x.r)
                 THEN edgeIndexDigits(Iterated(q,
                          errorf(q1, Subtract(q1.pos, x.r, q1.utf16), q1.pos,
                                 "unexpected character in edge index", <<>>)),
                          start, sb)
                 ELSE edgeIndexDigits(Iterated(q, q1), start, Append(sb, x.r))

parseEdgeIndex(q0) ==
    LET q == Called(q0)
        start == Subtract(q.pos, "[", q.utf16)
        ei0 == [kind |-> "edge_index", range |-> Range(start, Pos0),
                hasInt |-> FALSE, int |-> 0, glob |-> FALSE]
        x == Call("peekNotSpace", <<q>>)
    IN  IF x.eof \/ x.newlines > 0 THEN Ret([p |-> rewind(x.p), n |-> NIL])
        ELSE
        LET d == IF IsDigit(x.r)
                 THEN edgeIndexDigits(commit(x.p), start, <<x.r>>)
                 ELSE [ok |-> TRUE]
        IN  IF ~d.ok THEN Ret([p |-> d.p, n |-> NIL])
            ELSE
            LET q1 == IF IsDigit(x.r) THEN d.p
                      ELSE IF x.r = "*" THEN commit(x.p)
                      ELSE errorf(x.p, Subtract(x.p.pos, x.r, x.p.utf16), x.p.pos,
                                  "unexpected character in edge index", <<>>)
                ei1 == IF IsDigit(x.r) THEN [ei0 EXCEPT !.hasInt = TRUE, !.int = Atoi(d.sb)]
                       ELSE IF x.r = "*" THEN [ei0 EXCEPT !.glob = TRUE]
                       ELSE ei0
                y == Call("peekNotSpace", <<q1>>)
            IN  IF y.eof \/ y.newlines > 0 \/ y.r # "]"
                THEN LET q2 == errorf(rewind(y.p), start, rewind(y.p).pos,
                                      "unterminated edge index", <<>>)
                     IN  Ret([p |-> q2, n |-> [ei1 EXCEPT !.range.end = q2.pos]])
                ELSE LET q2 == commit(y.p)
                     IN  Ret([p |-> q2, n |-> [ei1 EXCEPT !.range.end = q2.pos]])

\* the body of parseEdgeGroup, before the deferred reset of inEdgeGroup
edgeGroupBody(q, mk) ==
    LET src == Call("parseKey", <<q>>)
        e == Call("parseEdges", <<src.p, mk, src.n>>)
        a == Call("peekNotSpace", <<e.p>>)
    IN  IF a.eof \/ a.newlines > 0 THEN [p |-> rewind(a.p), mk |-> e.mk]
        ELSE IF a.r # ")"
        THEN [p |-> errorf(rewind(a.p), mk.range.start, rewind(a.p).pos,
                           "edge groups must be terminated with )", <<>>),
              mk |-> e.mk]
        ELSE
        LET b == Call("peekNotSpace", <<commit(a.p)>>)
        IN  IF b.eof \/ b.newlines > 0 THEN [p |-> rewind(b.p), mk |-> e.mk]
            ELSE
            LET i == IF b.r = "[" THEN Call("parseEdgeIndex", <<commit(b.p)>>)
                     ELSE [p |-> rewind(b.p), n |-> NIL]
                mk1 == [e.mk EXCEPT !.edgeIndex = i.n]
                c == Call("peekNotSpace", <<i.p>>)
            IN  IF c.eof \/ c.newlines > 0 THEN [p |-> rewind(c.p), mk |-> mk1]
                ELSE
                LET k == IF c.r = "." THEN Call("parseKey", <<commit(c.p)>>)
                         ELSE [p |-> rewind(c.p), n |-> NIL]
                    mk2 == [mk1 EXCEPT !.edgeKey = k.n]
                IN  Call("parseMapKeyValue", <<[k.p EXCEPT !.inEdgeGroup = FALSE], mk2>>)

parseEdgeGroupWithoutKey(q0, mk) ==
    LET q == Called(q0)
        b == edgeGroupBody([q EXCEPT !.inEdgeGroup = TRUE],
                           [mk EXCEPT !.key = NIL])
    IN  Ret([p |-> [b.p EXCEPT !.inEdgeGroup = FALSE], mk |-> b.mk])

parseEdgeGroup(q0, mk) ==
    LET q == Called(q0)
        b == edgeGroupBody([q EXCEPT !.inEdgeGroup = TRUE], mk)
    IN  Ret([p |-> [b.p EXCEPT !.inEdgeGroup = FALSE], mk |-> b.mk])

\* the runes that end a connection with a destination arrowhead
dstArrowsGlobOnly == {"*"}
dstArrows == {">", "*"}

\* the loop of parseEdge, with the deferred e.Range.End.From(&p.pos)
RECURSIVE parseEdgeLoop(_, _)
parseEdgeLoopEscapingAny(q, e) ==
    LET x == Call("peek", <<q>>)
    IN  IF x.eof
        THEN [p |-> errorf(x.p, e.range.start, x.p.readerPos,
                           "unterminated connection", <<>>),
              e |-> e, ok |-> FALSE]
        ELSE IF x.r \in dstArrows
        THEN [p |-> commit(x.p), e |-> [e EXCEPT !.dstArrow = x.r], ok |-> TRUE]
        ELSE IF x.r = "\\"
        THEN LET y == Call("peekNotSpace", <<commit(x.p)>>)
             IN  IF y.eof THEN parseEdgeLoop(Iterated(q, y.p), e)
                 ELSE IF y.newlines > 1 THEN parseEdgeLoop(Iterated(q, rewind(y.p)), e)
                 ELSE parseEdgeLoop(Iterated(q, replay(commit(y.p), y.r)), e)
        ELSE IF x.r = "-" THEN parseEdgeLoop(Iterated(q, commit(x.p)), e)
        ELSE [p |-> rewind(x.p), e |-> e, ok |-> TRUE]

parseEdgeLoop(q, e) ==
    LET x == Call("peek", <<q>>)
    IN  IF x.eof
        THEN [p |-> errorf(x.p, e.range.start, x.p.readerPos,
                           "unterminated connection", <<>>),
              e |-> e, ok |-> FALSE]
        ELSE IF x.r \in dstArrows
        THEN [p |-> commit(x.p), e |-> [e EXCEPT !.dstArrow = x.r], ok |-> TRUE]
        ELSE IF x.r = "\\"
        THEN LET y == Call("peekNotSpace", <<commit(x.p)>>)
             IN  IF y.eof THEN parseEdgeLoop(Iterated(q, y.p), e)
                 ELSE IF y.newlines = 0
                 THEN [p |-> errorf(rewind(y.p), e.range.start,
                                    rewind(y.p).readerPos,
                                    "only newline escapes are allowed in connections",
                                    <<>>),
                       e |-> e, ok |-> FALSE]
                 ELSE IF y.newlines > 1 THEN parseEdgeLoop(Iterated(q, rewind(y.p)), e)
                 ELSE parseEdgeLoop(Iterated(q, replay(commit(y.p), y.r)), e)
        ELSE IF x.r = "-" THEN parseEdgeLoop(Iterated(q, commit(x.p)), e)
        ELSE [p |-> rewind(x.p), e |-> e, ok |-> TRUE]

parseEdge(q0, e) ==
    LET l == parseEdgeLoop(Called(q0), e)
    IN  Ret([p |-> l.p, e |-> [l.e EXCEPT !.range.end = l.p.pos], ok |-> l.ok])

RECURSIVE parseEdgesLoop(_, _, _)
parseEdgesLoopEndingAtGap(q, mk, src) ==
    LET x == Call("peekNotSpace", <<q>>)
    IN  IF x.eof THEN [p |-> x.p, mk |-> mk]
        ELSE IF x.newlines > 0 \/ x.r \notin {"<", "*", "-"} \/ src = NIL
        THEN [p |-> rewind(x.p), mk |-> mk]
        ELSE
        LET pe == Call("parseEdge",
                       <<commit(x.p),
                         [kind |-> "edge", range |-> Range(src.range.start, Pos0),
                          src |-> src,
                          srcArrow |-> IF x.r \in {"<", "*"} THEN x.r ELSE "",
                          dst |-> NIL, dstArrow |-> ""]>>)
        IN  IF ~pe.ok THEN [p |-> pe.p, mk |-> mk]
            ELSE
            LET dst == Call("parseKey", <<pe.p>>)
            IN  IF dst.n = NIL THEN [p |-> dst.p, mk |-> mk]
                ELSE parseEdgesLoop(Iterated(q, dst.p),
                         [mk EXCEPT !.edges =
                              Append(@, [pe.e EXCEPT !.dst = dst.n,
                                                     !.range.end = dst.n.range.end])],
                         dst.n)

\* the loop of parseEdges
parseEdgesLoop(q, mk, src) ==
    LET x == Call("peekNotSpace", <<q>>)
        e0 == [kind |-> "edge",
               range |-> Range(IF src # NIL THEN src.range.start ELSE q.pos, Pos0),
               src |-> src, srcArrow |-> "", dst |-> NIL, dstArrow |-> ""]
    IN  IF x.eof THEN [p |-> x.p, mk |-> mk]
        ELSE IF x.newlines > 0 THEN [p |-> rewind(x.p), mk |-> mk]
        ELSE IF x.r \notin {"<", "*", "-"} THEN [p |-> rewind(x.p), mk |-> mk]
        ELSE
        LET e1 == [e0 EXCEPT !.srcArrow = IF x.r \in {"<", "*"} THEN x.r ELSE ""]
            before == Subtract(x.p.lookaheadPos, x.r, x.p.utf16)
            q1 == IF src = NIL
                  THEN errorf(x.p, before, x.p.lookaheadPos,
                              "connection missing source", <<>>)
                  ELSE x.p
            e2 == IF src = NIL THEN [e1 EXCEPT !.range.start = before] ELSE e1
            pe == Call("parseEdge", <<commit(q1), e2>>)
        IN  IF ~pe.ok THEN [p |-> pe.p, mk |-> mk]
            ELSE
            LET dst == Call("parseKey", <<pe.p>>)
                q2 == IF dst.n = NIL
                      THEN errorf(dst.p, pe.e.range.start, dst.p.pos,
                                  "connection missing destination", <<>>)
                      ELSE dst.p
                e3 == IF dst.n = NIL THEN pe.e
                      ELSE [pe.e EXCEPT !.dst = dst.n,
                                        !.range.end = dst.n.range.end]
            IN  parseEdgesLoop(Iterated(q, q2), [mk EXCEPT !.edges = Append(@, e3)], dst.n)

parseEdgesWithoutSrc(q0, mk, src) == Ret(parseEdgesLoop(Called(q0), mk, NIL))

parseEdges(q0, mk, src) == Ret(parseEdgesLoop(Called(q0), mk, src))

\* the loop of parseKey: path is k.Path
parseKeyLoop(q, path) ==
    LET x == Call("peekNotSpace", <<q>>)
    IN  IF x.eof THEN [p |-> x.p, path |-> path]
        ELSE IF x.newlines > 0 \/ x.r = "(" THEN [p |-> rewind(x.p), path |-> path]
        ELSE IF x.r = "." THEN parseKeyLoop(Iterated(q, x.p), path)
        ELSE
        LET sb == Call("parseString", <<rewind(x.p), TRUE>>)
        IN  IF sb.n = NIL THEN [p |-> sb.p, path |-> path]
            ELSE
            LET y == Call("peekNotSpace", <<sb.p>>)
                path1 == Append(path, sb.n)
            IN  IF y.eof THEN [p |-> y.p, path |-> path1]
                ELSE IF y.newlines > 0 \/ y.r # "."
                THEN [p |-> rewind(y.p), path |-> path1]
                ELSE parseKeyLoop(Iterated(q, commit(y.p)), path1)

parseKey(q0) ==
    LET q == Called(q0)
        l == parseKeyLoop(q, <<>>)
    IN  Ret([p |-> l.p,
             n |-> IF Len(l.path) = 0 THEN NIL
                   ELSE [kind |-> "key_path", range |-> Range(q.pos, l.p.pos),
                         path |-> l.path]])

\* the runes that end an unquoted string anywhere, and in a key
topTerminatorsWithSpace == {"\n", ";", "#", "{", "}", "[", "]", " "}
topTerminators == {"\n", ";", "#", "{", "}", "[", "]"}
keyTerminators == {":", ".", "<", ">"}

\* the deferred functions of parseUnquotedString
retUnquotedString(q, st) ==
    LET sv == TrimRightSpace(st.sb)
        rawv == TrimRightSpace(st.rawb)
        s0 == [kind |-> "unquoted_string",
               range |-> Range(st.start, st.lastNonSpace), value |-> st.value]
    IN  Ret([p |-> q,
             n |-> IF sv = <<>>
                   THEN IF Len(st.value) > 0 THEN s0 ELSE NIL
                   ELSE [s0 EXCEPT !.value = Append(@, StringPart(sv, rawv))]])

\* the loop body of parseUnquotedString from p.commit() on; r is the rune
\* the switch left in r
RECURSIVE unquotedStringRest(_, _, _, _)
unquotedStringRest(q, st, inKey, r) ==
    LET q1 == commit(q)
        st1 == IF ~IsSpace(r) THEN [st EXCEPT !.lastNonSpace = q1.pos] ELSE st
    IN  IF ~inKey /\ r = "$"
        THEN LET sub == Call("parseSubstitution", <<q1, FALSE>>)
             IN  IF sub.n # NIL
                 THEN parseUnquotedStringLoop(IteratedAfterRead(q, sub.p),
                          [st1 EXCEPT
                             !.value = (IF Len(st1.sb) > 0
                                        THEN Append(@, StringPart(st1.sb, st1.rawb))
                                        ELSE @) \o <<SubstPart(sub.n)>>,
                             !.sb = <<>>],
                          inKey)
                 ELSE parseUnquotedStringLoop(IteratedAfterRead(q, sub.p), st1, inKey)
        ELSE IF r # "\\"
        THEN parseUnquotedStringLoop(IteratedAfterRead(q, q1),
                 [st1 EXCEPT !.sb = Append(@, r), !.rawb = Append(@, r)], inKey)
        ELSE
        LET z == Call("read", <<q1>>)
        IN  IF z.eof
            THEN [p |-> errorf(z.p, Subtract(z.p.pos, "\\", z.p.utf16),
                               z.p.readerPos, "unfinished escape sequence", <<>>),
                  st |-> st1]
            ELSE IF z.r = "\n"
            THEN LET w == Call("peekNotSpace", <<z.p>>)
                 IN  IF w.eof \/ w.newlines > 0
                     THEN [p |-> rewind(w.p), st |-> st1]
                     ELSE parseUnquotedStringLoop(IteratedAfterRead(q, replay(commit(w.p), w.r)), st1,
                                                  inKey)
            ELSE parseUnquotedStringLoop(IteratedAfterRead(q, z.p),
                     [st1 EXCEPT !.sb = Append(@, decodeEscape(z.r)),
                                 !.rawb = @ \o <<"\\", z.r>>],
                     inKey)

parseUnquotedStringLoop(q, st, inKey) ==
    LET x == Call("peek", <<q>>)
    IN  IF x.eof THEN [p |-> x.p, st |-> st]
        ELSE IF x.p.inEdgeGroup /\ x.r = ")"
        THEN LET y == Call("peekNotSpace", <<x.p>>)
             IN  IF y.eof \/ y.newlines > 0 THEN [p |-> rewind(y.p), st |-> st]
                 ELSE IF y.r \in {"\n", "#", "{", "}", "[", "]", ":", "."}
                 THEN [p |-> rewind(y.p), st |-> st]
                 ELSE LET q1 == commit(Call("peek", <<rewind(y.p)>>).p)
                      IN  parseUnquotedStringLoop(Iterated(q, q1),
                              [st EXCEPT !.lastNonSpace = q1.pos,
                                         !.sb = Append(@, x.r),
                                         !.rawb = Append(@, x.r)],
                              inKey)
        ELSE IF x.r \in topTerminators
        THEN [p |-> rewind(x.p), st |-> st]
        ELSE IF inKey /\ x.r \in keyTerminators
        THEN [p |-> rewind(x.p), st |-> st]
        ELSE IF inKey /\ x.r \in {"-", "*"}
        THEN LET y == Call("peek", <<x.p>>)
                 stop == IF x.r = "-" THEN {"-", ">", "*"} ELSE {"-"}
             IN  IF y.eof THEN [p |-> y.p, st |-> st]
                 ELSE IF y.r \in stop THEN [p |-> rewind(y.p), st |-> st]
                 ELSE unquotedStringRest(y.p,
                          [st EXCEPT !.sb = Append(@, x.r),
                                     !.rawb = Append(@, x.r)],
                          inKey, y.r)
        ELSE unquotedStringRest(x.p, st, inKey, x.r)

parseUnquotedString(q0, inKey) ==
    LET q == Called(q0)
        l == parseUnquotedStringLoop(q,
                 [start |-> q.pos, lastNonSpace |-> q.pos, value |-> <<>>,
                  sb |-> <<>>, rawb |-> <<>>], inKey)
    IN  retUnquotedString(l.p, l.st)

unterminatedDQ == "double quoted strings must be terminated with \""

parseDoubleQuotedStringLoop(q, st, inKey) ==
    LET x == Call("peek", <<q>>)
    IN  IF x.eof
        THEN [p |-> errorf(x.p, st.start, x.p.readerPos, unterminatedDQ, <<>>),
              st |-> st]
        ELSE IF x.r = "\n"
        THEN [p |-> errorf(rewind(x.p), st.start, rewind(x.p).pos,
                           unterminatedDQ, <<>>),
              st |-> st]
        ELSE
        LET q1 == commit(x.p)
            sub == IF ~inKey /\ x.r = "$" THEN Call("parseSubstitution", <<q1, FALSE>>)
                   ELSE [p |-> q1, n |-> NIL]
        IN  IF sub.n # NIL
            THEN parseDoubleQuotedStringLoop(Iterated(q, sub.p),
                     [st EXCEPT
                        !.value = (IF Len(st.sb) > 0
                                   THEN Append(@, StringOnlyPart(st.sb))
                                   ELSE @) \o <<SubstPart(sub.n)>>,
                        !.sb = <<>>],
                     inKey)
            ELSE IF x.r = "\"" THEN [p |-> sub.p, st |-> st]
            ELSE IF x.r # "\\"
            THEN parseDoubleQuotedStringLoop(Iterated(q, sub.p),
                     [st EXCEPT !.sb = Append(@, x.r), !.rawb = Append(@, x.r)],
                     inKey)
            ELSE
            LET z == Call("read", <<sub.p>>)
            IN  IF z.eof
                THEN [p |-> errorf(
                               errorf(z.p, Subtract(z.p.pos, "\\", z.p.utf16),
                                      z.p.readerPos, "unfinished escape sequence",
                                      <<>>),
                               st.start, z.p.readerPos, unterminatedDQ, <<>>),
                      st |-> st]
                ELSE IF z.r = "\n"
                THEN parseDoubleQuotedStringLoop(Iterated(q, z.p), st, inKey)
                ELSE parseDoubleQuotedStringLoop(Iterated(q, z.p),
                         [st EXCEPT !.sb = Append(@, decodeEscape(z.r)),
                                    !.rawb = @ \o <<"\\", z.r>>],
                         inKey)

parseDoubleQuotedStringFromBody(q0, inKey) ==
    LET q == Called(q0)
        l == parseDoubleQuotedStringLoop(q,
                 [start |-> q.pos, value |-> <<>>,
                  sb |-> <<>>, rawb |-> <<>>], inKey)
    IN  Ret([p |-> l.p,
             n |-> [kind |-> "double_quoted_string",
                    range |-> Range(l.st.start, l.p.pos),
                    value |-> IF Len(l.st.sb) > 0
                              THEN Append(l.st.value,
                                          StringPart(l.st.sb, l.st.rawb))
                              ELSE l.st.value]])

parseDoubleQuotedString(q0, inKey) ==
    LET q == Called(q0)
        l == parseDoubleQuotedStringLoop(q,
                 [start |-> Subtract(q.pos, "\"", q.utf16), value |-> <<>>,
                  sb |-> <<>>, rawb |-> <<>>], inKey)
    IN  Ret([p |-> l.p,
             n |-> [kind |-> "double_quoted_string",
                    range |-> Range(l.st.start, l.p.pos),
                    value |-> IF Len(l.st.sb) > 0
                              THEN Append(l.st.value,
                                          StringPart(l.st.sb, l.st.rawb))
                              ELSE l.st.value]])

unterminatedSQ == "single quoted strings must be terminated with '"

RECURSIVE parseSingleQuotedStringLoop(_, _, _)
parseSingleQuotedStringLoop(q, start, sb) ==
    LET x == Call("peek", <<q>>)
    IN  IF x.eof
        THEN [p |-> errorf(x.p, start, x.p.readerPos, unterminatedSQ, <<>>),
              sb |-> sb]
        ELSE IF x.r = "\n"
        THEN [p |-> errorf(rewind(x.p), start, rewind(x.p).pos, unterminatedSQ,
                           <<>>),
              sb |-> sb]
        ELSE
        LET q1 == commit(x.p)
            y == Call("peek", <<q1>>)
        IN  IF x.r = "'"
            THEN IF y.eof THEN [p |-> y.p, sb |-> sb]
                 ELSE IF y.r = "'"
                 THEN parseSingleQuotedStringLoop(Iterated(q, commit(y.p)), start,
                                                  Append(sb, "'"))
                 ELSE [p |-> rewind(y.p), sb |-> sb]
            ELSE IF x.r # "\\"
            THEN parseSingleQuotedStringLoop(Iterated(q, q1), start, Append(sb, x.r))
            ELSE IF y.eof THEN parseSingleQuotedStringLoop(Iterated(q, y.p), start, sb)
            ELSE IF y.r = "\n"
            THEN parseSingleQuotedStringLoop(Iterated(q, commit(y.p)), start, sb)
            ELSE parseSingleQuotedStringLoop(Iterated(q, rewind(y.p)), start, Append(sb, x.r))

parseSingleQuotedString(q0) ==
    LET q == Called(q0)
        start == Subtract(q.pos, "'", q.utf16)
        l == parseSingleQuotedStringLoop(q, start, <<>>)
    IN  Ret([p |-> l.p,
             n |-> [kind |-> "single_quoted_string",
                    range |-> Range(start, l.p.pos), value |-> l.sb]])

\* first loop of parseBlockString: the quote runes after the opening |
RECURSIVE blockStringQuote(_, _)
blockStringQuote(q, quote) ==
    LET x == Call("peek", <<q>>)
    IN  IF x.eof THEN [p |-> x.p, quote |-> quote, eof |-> TRUE]
        ELSE IF IsSpace(x.r) \/ IsLetter(x.r) \/ IsDigit(x.r) \/ x.r = "_"
        THEN [p |-> rewind(x.p), quote |-> quote, eof |-> FALSE]
        ELSE blockStringQuote(Iterated(q, commit(x.p)), Append(quote, x.r))

\* second loop: the tag
RECURSIVE blockStringTag(_, _)
blockStringTag(q, tag) ==
    LET x == Call("peek", <<q>>)
    IN  IF x.eof THEN [p |-> x.p, tag |-> tag, eof |-> TRUE]
        ELSE IF IsSpace(x.r) THEN [p |-> rewind(x.p), tag |-> tag, eof |-> FALSE]
        ELSE blockStringTag(Iterated(q, commit(x.p)), Append(tag, x.r))

\* third loop: skip non newline whitespace
RECURSIVE blockStringSkip(_, _)
blockStringSkip(q, sb) ==
    LET x == Call("peek", <<q>>)
    IN  IF x.eof THEN [p |-> x.p, sb |-> sb, eof |-> TRUE]
        ELSE IF ~IsSpace(x.r)
        THEN [p |-> rewind(x.p), sb |-> sb \o getIndent(x.p), eof |-> FALSE]
        ELSE IF x.r = "\n" THEN [p |-> commit(x.p), sb |-> sb, eof |-> FALSE]
        ELSE blockStringSkip(Iterated(q, commit(x.p)), sb)

\* last loop: the text up to the closing delimiter
RECURSIVE blockStringBody(_, _, _, _)
blockStringBody(q, sb, endHint, endRest) ==
    LET x == Call("read", <<q>>)
    IN  IF x.eof THEN [p |-> x.p, sb |-> sb, eof |-> TRUE]
        ELSE IF x.r # endHint
        THEN blockStringBody(Iterated(q, x.p), Append(sb, x.r), endHint, endRest)
        ELSE LET y == Call("peekn", <<x.p, Len(endRest)>>)
             IN  IF y.eof THEN [p |-> y.p, sb |-> sb, eof |-> TRUE]
                 ELSE IF y.s # endRest
                 THEN blockStringBody(Iterated(q, rewind(y.p)), Append(sb, endHint), endHint,
                                      endRest)
                 ELSE [p |-> commit(y.p), sb |-> sb, eof |-> FALSE]

retBlockStringSilently(q, start, quote, tag, sb, unterminated) ==
    Ret([p |-> dec(q),
         n |-> [kind |-> "block_string", range |-> Range(start, q.pos),
                quote |-> quote, tag |-> tag,
                value |-> trimCommonIndent(trimSpaceAfterLastNewline(sb))]])

\* the deferred functions of parseBlockString; unterminated: the stream ended
retBlockString(q, start, quote, tag, sb, unterminated) ==
    LET q1 == IF unterminated
              THEN errorf(q, start, q.readerPos,
                          "block string must be terminated with %v",
                          <<quote \o <<"|">>>>)
              ELSE q
    IN  Ret([p |-> dec(q1),
             n |-> [kind |-> "block_string", range |-> Range(start, q1.pos),
                    quote |-> quote, tag |-> tag,
                    value |-> trimCommonIndent(trimSpaceAfterLastNewline(sb))]])

parseBlockString(q0) ==
    LET q == Called(q0)
        start == Subtract(q.pos, "|", q.utf16)
        a == blockStringQuote([q EXCEPT !.depth = @ + 1], <<>>)
    IN  IF a.eof THEN retBlockString(a.p, start, a.quote, <<>>, <<>>, TRUE)
        ELSE
        LET b == blockStringTag(a.p, <<>>)
        IN  IF b.eof THEN retBlockString(b.p, start, a.quote, b.tag, <<>>, TRUE)
            ELSE
            LET tag == IF b.tag = <<>> THEN <<"m", "d">> ELSE b.tag
                c == blockStringSkip(b.p, <<>>)
            IN  IF c.eof
                THEN retBlockString(c.p, start, a.quote, tag, c.sb, TRUE)
                ELSE
                LET endHint == IF Len(a.quote) > 0 THEN a.quote[Len(a.quote)]
                               ELSE "|"
                    \* bs.Quote[size:] + "|", size the length of the last rune
                    endRest == IF Len(a.quote) > 0
                               THEN Tail(a.quote) \o <<"|">>
                               ELSE <<>>
                    d == blockStringBody(c.p, c.sb, endHint, endRest)
                IN  retBlockString(d.p, start, a.quote, tag, d.sb, d.eof)

parseString(q0, inKey) ==
    LET q == Called(q0)
        x == Call("peekNotSpace", <<q>>)
    IN  IF x.eof \/ x.newlines > 0 THEN Ret([p |-> rewind(x.p), n |-> NIL])
        ELSE
        LET q1 == commit(x.p)
        IN  IF x.r = "\"" THEN Ret(Call("parseDoubleQuotedString", <<q1, inKey>>))
            ELSE IF x.r = "'" THEN Ret(Call("parseSingleQuotedString", <<q1>>))
            ELSE IF x.r = "|" THEN Ret(Call("parseBlockString", <<q1>>))
            ELSE Ret(Call("parseUnquotedString", <<replay(q1, x.r), inKey>>))

(***************************************************************************)
(* big.Rat.SetString on decimal literals: [sign] digits [/ digits] or      *)
(* [sign] digits [. digits] [e [sign] digits].  The value is num/den in    *)
(* lowest terms.                                                           *)
(***************************************************************************)
IsDigits(s) == Len(s) > 0 /\ \A i \in 1..Len(s) : IsDigit(s[i])

IndexOf(s, R) ==
    LET I == {i \in 1..Len(s) : s[i] \in R}
    IN  IF I = {} THEN 0 ELSE CHOOSE i \in I : \A j \in I : i <= j

RECURSIVE GCD(_, _)
GCD(a, b) == IF b = 0 THEN a ELSE GCD(b, a % b)

RECURSIVE Pow10(_)
Pow10(n) == IF n <= 0 THEN 1 ELSE 10 * Pow10(n - 1)

NewRat(num, den) ==
    LET a == IF num < 0 THEN -num ELSE num
        g == GCD(a, den)
    IN  [ok |-> TRUE, num |-> num \div g, den |-> den \div g]

NoRat == [ok |-> FALSE, num |-> 0, den |-> 1]

RatSetString(s) ==
    LET signed == Len(s) > 0 /\ s[1] \in {"+", "-"}
        sign == IF Len(s) > 0 /\ s[1] = "-" THEN -1 ELSE 1
        body == IF signed THEN Tail(s) ELSE s
        slash == IndexOf(body, {"/"})
        e == IndexOf(body, {"e", "E"})
        mant == IF e = 0 THEN body ELSE SubSeq(body, 1, e - 1)
        ex == IF e = 0 THEN <<>> ELSE SubSeq(body, e + 1, Len(body))
        exSigned == Len(ex) > 0 /\ ex[1] \in {"+", "-"}
        exDigits == IF exSigned THEN Tail(ex) ELSE ex
        exp10 == IF e = 0 THEN 0
                 ELSE IF Len(ex) > 0 /\ ex[1] = "-" THEN -Atoi(exDigits)
                 ELSE Atoi(exDigits)
        dot == IndexOf(mant, {"."})
        int == IF dot = 0 THEN mant ELSE SubSeq(mant, 1, dot - 1)
        frac == IF dot = 0 THEN <<>> ELSE SubSeq(mant, dot + 1, Len(mant))
        scale == exp10 - Len(frac)
    IN  IF slash # 0
        THEN LET a == SubSeq(body, 1, slash - 1)
                 b == SubSeq(body, slash + 1, Len(body))
             IN  IF IsDigits(a) /\ IsDigits(b) /\ Atoi(b) # 0
                 THEN NewRat(sign * Atoi(a), Atoi(b))
                 ELSE NoRat
        ELSE IF /\ Len(int \o frac) > 0
                /\ \A i \in 1..Len(int \o frac) : IsDigit((int \o frac)[i])
                /\ (e = 0 \/ IsDigits(exDigits))
        THEN IF scale >= 0
             THEN NewRat(sign * Atoi(int \o frac) * Pow10(scale), 1)
             ELSE NewRat(sign * Atoi(int \o frac), Pow10(-scale))
        ELSE NoRat

ToLower(r) ==
    IF \E i \in 1..26 : Upper[i] = r
    THEN Lower[CHOOSE i \in 1..26 : Upper[i] = r]
    ELSE r

\* strings.EqualFold against a lower case ASCII word
EqualFold(s, word) ==
    Len(s) = Len(word) /\ \A i \in 1..Len(s) : ToLower(s[i]) = word[i]

parseValue(q0) ==
    LET q == Called(q0)
        x == Call("peekNotSpace", <<q>>)
    IN  IF x.eof \/ x.newlines > 0 THEN Ret([p |-> rewind(x.p), n |-> NIL])
        ELSE
        LET q1 == commit(x.p)
        IN  IF x.r = "[" THEN Ret(Call("parseArray", <<q1>>))
            ELSE IF x.r = "{" THEN Ret(Call("parseMap", <<q1, FALSE>>))
            ELSE
            LET sb == Call("parseString", <<replay(q1, x.r), FALSE>>)
                s == sb.n
                str == ScalarString(s)
                rat == RatSetString(str)
            IN  IF s.kind # "unquoted_string" THEN Ret(sb)
                ELSE IF EqualFold(str, <<"n", "u", "l", "l">>)
                THEN Ret([p |-> sb.p, n |-> [kind |-> "null", range |-> s.range]])
                ELSE IF EqualFold(str, <<"t", "r", "u", "e">>)
                THEN Ret([p |-> sb.p,
                          n |-> [kind |-> "boolean", range |-> s.range,
                                 value |-> TRUE]])
                ELSE IF EqualFold(str, <<"f", "a", "l", "s", "e">>)
                THEN Ret([p |-> sb.p,
                          n |-> [kind |-> "boolean", range |-> s.range,
                                 value |-> FALSE]])
                ELSE IF rat.ok
                THEN Ret([p |-> sb.p,
                          n |-> [kind |-> "number", range |-> s.range,
                                 raw |-> str,
                                 value |-> [num |-> rat.num, den |-> rat.den]]])
                ELSE Ret(sb)

parseArrayNode(q0, r) ==
    LET q == Called(q0)
        sw == IF r = "#" THEN [done |-> TRUE, x |-> Call("parseComment", <<q>>)]
              ELSE IF r = "\""
              THEN LET y == Call("peekn", <<q, 2>>)
                   IN  IF y.eof THEN [done |-> FALSE, p |-> y.p]
                       ELSE IF y.s # <<"\"", "\"">>
                       THEN [done |-> FALSE, p |-> rewind(y.p)]
                       ELSE [done |-> TRUE, x |-> Call("parseBlockComment", <<commit(y.p)>>)]
              ELSE IF r = "."
              THEN LET y == Call("peekn", <<q, 3>>)
                   IN  IF y.eof THEN [done |-> FALSE, p |-> y.p]
                       ELSE IF y.s # <<".", ".", "$">>
                       THEN [done |-> FALSE, p |-> rewind(y.p)]
                       ELSE [done |-> TRUE,
                             x |-> Call("parseSubstitution", <<commit(y.p), TRUE>>)]
              ELSE [done |-> FALSE, p |-> q]
    IN  IF sw.done THEN Ret(sw.x)
        ELSE LET v == Call("parseValue", <<replay(sw.p, r)>>)
             IN  IF v.n.kind = "unquoted_string" /\ ScalarString(v.n) = <<>>
                 THEN Ret([p |-> errorf(v.p, v.p.pos,
                                        Advance(v.p.pos, r, v.p.utf16),
                                        "unquoted strings cannot start on %q",
                                        <<r>>),
                           n |-> v.n])
                 ELSE Ret(v)

parseArrayLoopCheckingAll(q, a) ==
    LET x == Call("readNotSpace", <<q>>)
    IN  IF x.eof
        THEN [p |-> errorf(x.p, a.range.start, x.p.readerPos,
                           "arrays must be terminated with ]", <<>>),
              a |-> a]
        ELSE IF x.r = ";" THEN parseArrayLoop(Iterated(q, x.p), a)
        ELSE IF x.r = "]" THEN [p |-> x.p, a |-> a]
        ELSE LET y == Call("parseArrayNode", <<x.p, x.r>>)
                 q1 == eatLine(y.p, "]")
             IN  parseArrayLoop(Iterated(q,
                     IF y.p.pos = q1.pos THEN q1
                     ELSE IF y.n # NIL
                     THEN errorf(q1, y.p.pos, q1.pos, "unexpected text after %v",
                                 <<Type(y.n)>>)
                     ELSE errorf(q1, y.p.pos, q1.pos,
                                 "invalid text beginning unquoted string", <<>>)),
                     IF y.n # NIL THEN [a EXCEPT !.nodes = Append(@, y.n)] ELSE a)

parseArrayLoop(q, a) ==
    LET x == Call("readNotSpace", <<q>>)
    IN  IF x.eof
        THEN [p |-> errorf(x.p, a.range.start, x.p.readerPos,
                           "arrays must be terminated with ]", <<>>),
              a |-> a]
        ELSE IF x.r = ";" THEN parseArrayLoop(Iterated(q, x.p), a)
        ELSE IF x.r = "]" THEN [p |-> x.p, a |-> a]
        ELSE LET y == Call("parseArrayNode", <<x.p, x.r>>)
                 n == y.n
                 a1 == IF n # NIL THEN [a EXCEPT !.nodes = Append(@, n)] ELSE a
             IN  IF n.kind = "block_comment" THEN parseArrayLoop(Iterated(q, y.p), a1)
                 ELSE LET after == y.p.pos
                          q1 == eatLine(y.p, "]")
                          q2 == IF after = q1.pos THEN q1
                                ELSE IF n # NIL
                                THEN errorf(q1, after, q1.pos,
                                            "unexpected text after %v",
                                            <<Type(n)>>)
                                ELSE errorf(q1, after, q1.pos,
                                            "invalid text beginning unquoted string",
                                            <<>>)
                      IN  parseArrayLoop(Iterated(q, q2), a1)

parseArray(q0) ==
    LET q == Called(q0)
        start == Subtract(q.pos, "[", q.utf16)
        l == parseArrayLoop([q EXCEPT !.depth = @ + 1],
                            [kind |-> "array", range |-> Range(start, Pos0),
                             nodes |-> <<>>])
        q1 == dec(l.p)
    IN  Ret([p |-> q1, n |-> [l.a EXCEPT !.range.end = q1.readerPos]])

parseSubstitution(q0, spread) ==
    LET q == Called(q0)
        start0 == SubtractString(q.pos, <<"$">>, q.utf16)
        start == IF spread
                 THEN SubtractString(start0, <<".", ".", ".">>, q.utf16)
                 ELSE start0
        subst == [kind |-> "substitution", range |-> Range(start, Pos0),
                  spread |-> spread, path |-> <<>>]
        x == Call("peekNotSpace", <<q>>)
    IN  IF x.eof THEN Ret([p |-> x.p, n |-> NIL])
        ELSE IF x.newlines > 0 THEN Ret([p |-> rewind(x.p), n |-> NIL])
        ELSE IF x.r # "{"
        THEN Ret([p |-> errorf(rewind(x.p), start, rewind(x.p).readerPos,
                               "substitutions must begin on {", <<>>),
                  n |-> NIL])
        ELSE
        LET k == Call("parseKey", <<commit(x.p)>>)
            subst1 == IF k.n # NIL THEN [subst EXCEPT !.path = k.n.path]
                      ELSE subst
            y == Call("peekNotSpace", <<k.p>>)
            unterminated == "substitutions must be terminated by }"
            q1 == IF y.eof
                  THEN errorf(y.p, start, y.p.readerPos, unterminated, <<>>)
                  ELSE IF y.newlines > 0 \/ y.r # "}"
                  THEN errorf(rewind(y.p), start, rewind(y.p).pos, unterminated,
                              <<>>)
                  ELSE commit(y.p)
        IN  Ret([p |-> q1, n |-> [subst1 EXCEPT !.range.end = q1.pos]])

\* A call of a method of the parser from a grammar function: fn is its
\* name, a its arguments.  The grammar is mutually recursive, and every call
\* a grammar function makes of another, or of the cursor, is made here.
Call(fn, a) ==
    CASE fn = "parseMap" -> parseMap(a[1], a[2])
      [] fn = "parseMapNode" -> parseMapNode(a[1], a[2])
      [] fn = "parseMapKey" -> parseMapKey(a[1])
      [] fn = "parseMapKeyValue" -> parseMapKeyValue(a[1], a[2])
      [] fn = "parseEdgeGroup" -> parseEdgeGroup(a[1], a[2])
      [] fn = "parseEdgeIndex" -> parseEdgeIndex(a[1])
      [] fn = "parseEdges" -> parseEdges(a[1], a[2], a[3])
      [] fn = "parseEdge" -> parseEdge(a[1], a[2])
      [] fn = "parseKey" -> parseKey(a[1])
      [] fn = "parseString" -> parseString(a[1], a[2])
      [] fn = "parseUnquotedString" -> parseUnquotedString(a[1], a[2])
      [] fn = "parseDoubleQuotedString" -> parseDoubleQuotedString(a[1], a[2])
      [] fn = "parseSingleQuotedString" -> parseSingleQuotedString(a[1])
      [] fn = "parseBlockString" -> parseBlockString(a[1])
      [] fn = "parseValue" -> parseValue(a[1])
      [] fn = "parseArray" -> parseArray(a[1])
      [] fn = "parseArrayNode" -> parseArrayNode(a[1], a[2])
      [] fn = "parseSubstitution" -> parseSubstitution(a[1], a[2])
      [] fn = "parseComment" -> parseComment(a[1])
      [] fn = "parseBlockComment" -> parseBlockComment(a[1])
      [] fn = "read" -> read(a[1])
      [] fn = "peek" -> peek(a[1])
      [] fn = "peekn" -> peekn(a[1], a[2])
      [] fn = "readNotSpace" -> readNotSpace(a[1])
      [] fn = "peekNotSpace" -> peekNotSpace(a[1])

\* Parse, from the parser it constructs: the root map and the error returned
ParseError(q) ==
    IF ~empty(q) THEN [kind |-> "ParseError", ioError |-> q.ioError,
                       errs |-> q.errs]
    ELSE NIL

Returned(m) == [p |-> m.p, m |-> m.n, err |-> ParseError(m.p)]

ParseFrom(q) == Returned(Call("parseMap", <<q, TRUE>>))

Parse(data, fail, byUTF16) == ParseFrom(NewParser(data, fail, byUTF16))

(***************************************************************************)
(* Inputs                                                                  *)
(***************************************************************************)
MaxLen == 3        \* documents of up to MaxLen runes of Alphabet
MaxTokens == 3     \* documents of up to MaxTokens tokens of Tokens
MaxOps == 6        \* cursor runs of up to MaxOps operations
MaxHops == 3       \* connection chains of up to MaxHops hops
MaxOpen == 1       \* MaxOpen maps and arrays left open around the last opening
MaxText == 6       \* block texts of up to MaxText runes

Alphabet == {"a", " ", "\n", "-", ">", ":", "{", "}", ".", "\"", "#", ";",
             Wide4}

Tokens == {<<"x">>, <<" ">>, <<"\n">>, <<":">>, <<"-", ">">>, <<"{">>,
           <<"}">>, <<"[">>, <<"]">>, <<"(">>, <<")">>, <<"|">>, <<"'">>,
           <<"$">>, <<"\\">>, <<"5">>}

SeqsUpTo(S, n) == UNION {[1..k -> S] : k \in 0..n}

RECURSIVE Flatten(_)
Flatten(ts) == IF ts = <<>> THEN <<>> ELSE Head(ts) \o Flatten(Tail(ts))

\* documents of the parser's tests and of the language tour
DocXY == <<"x", " ", "y">>
DocAB == <<"a", " ", "-", ">", " ", "b">>
Corpus ==
    {DocXY, DocAB,
     <<"x", ":", " ", "5">>,
     <<"a", " ", "-", ">", " ", "b", " ", "-", ">", " ", "c">>,
     <<"a", ":", " ", "{", "\n", " ", " ", "b", "\n", "}", "\n", "c">>,
     <<"a", ":", " ", "[", "1", ";", " ", "2", "]", "\n">>,
     <<"(", "a", " ", "-", ">", " ", "b", ")", "[", "0", "]", ".", "c", ":",
       " ", "1">>,
     <<"a", ":", " ", "|", "m", "d", "\n", " ", " ", "x", "\n", "|", "\n">>,
     <<Wide2, ":", " ", "\"", Wide4, "\"", " ", "{", "}">>}

\* connection chains on one line: k0 c1 k1 ... cn kn, a space between every
\* key and connector
ChainDocs ==
    UNION {{[i \in 1..(5 * n + 1) |->
                CASE i % 5 = 1 -> ks[(i + 4) \div 5]
                  [] i % 5 = 3 -> cs[(i + 2) \div 5][1]
                  [] i % 5 = 4 -> cs[(i + 1) \div 5][2]
                  [] OTHER -> " "] :
            ks \in [1..(n + 1) -> {"a", "b"}],
            cs \in [1..n -> {<<"-", ">">>, <<"-", "-">>, <<"<", "-">>}]} :
           n \in 1..MaxHops}

\* double quoted strings without the closing quote, as a key and as the
\* value of the key x, ending with the document or with a line
DocQuoteABC == <<"\"", "a", "b", "c">>
DQDocs ==
    {pre \o <<"\"">> \o body \o post :
        pre \in {<<>>, <<"x", ":", " ">>},
        body \in SeqsUpTo({"a", " ", "\\", "$"}, MaxLen),
        post \in {<<>>, <<"\n">>, <<"\n", "z">>}} \cup {DocQuoteABC}

\* the key x with an unquoted value of up to MaxTokens tokens, and with a
\* word or number as double quoted, single quoted and block string
ValueDocs ==
    LET ValueTokens ==
            {<<"N", "u", "L", "l">>, <<"t", "r", "u", "e">>,
             <<"F", "A", "L", "S", "E">>, <<"5">>, <<".">>, <<"-">>, <<"e">>,
             <<"/">>, <<"a">>, <<"$", "{", "a", "}">>}
        QuotedWords ==
            {<<"n", "u", "l", "l">>, <<"t", "r", "u", "e">>, <<"5">>,
             <<"5", "/", "5">>}
        \* exponents have one digit: a number's value is computed as an
        \* integer of the model checker
        small(ts) == \A i \in 1..(Len(ts) - 2) :
                         ~(ts[i] = <<"e">> /\ ts[i + 1] = <<"5">>
                               /\ ts[i + 2] = <<"5">>)
    IN  {<<"x", ":", " ">> \o Flatten(ts) :
            ts \in {t \in SeqsUpTo(ValueTokens, MaxTokens) \ {<<>>} : small(t)}}
        \cup {<<"x", ":", " ", o>> \o w \o <<o>> :
                  o \in {"\"", "'"}, w \in QuotedWords}
        \cup {<<"x", ":", " ", "|", " ">> \o w \o <<" ", "|">> :
                  w \in QuotedWords}

\* one line comment, at the start of the document or after the key x, ending
\* with the document or followed by the key z on the next line
DocComment == <<"#", " ", "c", "o", "m", "m", "e", "n", "t">>
CommentDocs ==
    {pre \o <<"#">> \o text \o post :
        pre \in {<<>>, <<"x", " ">>},
        text \in SeqsUpTo({"a", " ", "#", "\"", "\\", Wide4}, MaxLen),
        post \in {<<>>, <<"\n", "z">>}} \cup {DocComment}

\* a key path followed on its line by an edge group, alone or with an edge
\* key or a value after it
GroupDocs ==
    {k \o <<"(", "b", " ", "-", c, " ", "c", ")">> \o rest :
        k \in {<<"a", ".">>, <<"\"", "a", "\"">>, <<"\"", "a", "\"", " ">>},
        c \in {">", "-"},
        rest \in {<<>>, <<".", "d">>, <<":", " ", "5">>}}

\* lines on which a key is tried and neither a key path nor a connection is
\* parsed, ending the document or followed by the key z on the next line
KeylessDocs ==
    {l \o post :
        l \in {<<"&">>, <<"&", " ">>, <<".">>, <<"&", ".">>, <<".", ":">>,
               <<":">>, <<"&", ":">>, <<":", " ", "5">>},
        post \in {<<>>, <<"\n", "z">>}}

\* documents with } at file scope, and documents where the key a has a map
\* that } ends, with } or the key c after it
BraceDocs ==
    SeqsUpTo({"}", "a", " ", "\n"}, MaxLen + 1)
        \cup {<<"a", "{">> \o body \o <<"}">> \o post :
                  body \in SeqsUpTo({"b", "\n", ";"}, 2),
                  post \in {<<>>, <<"}">>, <<"\n", "c">>, <<"}", "c">>}}

\* the document that opens the maps and arrays of stack one inside the
\* other, has the elements sib in the innermost and then opens the leaf (a
\* map, an array, a block string or a block comment), without closing any:
\* what is opened is the value of the key a in a map, an element in an array
OpenDoc(stack, sib, leaf) ==
    LET inArray(i) == i > 1 /\ stack[i - 1] = "["
        key(i, r) == IF inArray(i) THEN <<>>
                     ELSE IF r = "{" THEN <<"a">> ELSE <<"a", ":">>
        last == Len(stack) + 1
    IN  Flatten([i \in 1..Len(stack) |-> key(i, stack[i]) \o <<stack[i]>>])
            \o sib
            \o CASE leaf \in {"{", "["} -> key(last, leaf) \o <<leaf>>
                 [] leaf = "|" -> key(last, leaf) \o <<"|", " ", "x">>
                 [] leaf = "\"" -> <<"\"", "\"", "\"", "x">>
                 [] OTHER -> <<>>

\* documents that end inside open maps, arrays, a block string or a block
\* comment, and documents that end at file scope
OpenDocs ==
    {OpenDoc(stack, sib, leaf) :
        stack \in SeqsUpTo({"{", "["}, MaxOpen),
        sib \in {<<>>, <<"b", ";">>},
        leaf \in {"", "{", "[", "|", "\""}}

\* the key a and a colon with no value on the line: spaces, then the end of
\* the document, the end of the line or a rune that ends a value
MissingValueDocs ==
    {<<"a", ":">> \o sp \o rest :
        sp \in {<<>>, <<" ">>, <<" ", " ">>},
        rest \in {<<>>, <<"\n">>, <<"\n", "b">>, <<";">>, <<";", "b">>,
                  <<"#", "c">>}}

\* the connection chain of n hops with the connectors cs, a space after
\* every key and connector; key i is the letter i of the alphabet, or
\* missing when ks[i] is FALSE; open: without the space at the end
GapDoc(ks, cs, open) ==
    LET n == Len(cs)
        token(i) == IF i % 2 = 0 THEN cs[i \div 2]
                    ELSE IF ks[(i + 1) \div 2] THEN <<Lower[(i + 1) \div 2]>>
                    ELSE <<>>
        spaced(i) == IF token(i) = <<>> THEN <<>> ELSE token(i) \o <<" ">>
        doc == Flatten([i \in 1..(2 * n + 1) |-> spaced(i)])
    IN  IF open THEN SubSeq(doc, 1, Len(doc) - 1) ELSE doc

\* the connectors of a chain of n hops, all hops alike
GapConnectors(n) == {[i \in 1..n |-> c] : c \in {<<"-", ">">>, <<"-", "-">>}}

\* connection chains on one line with missing sources and destinations
GapDocs ==
    UNION {{GapDoc(ks, cs, open) :
                ks \in [1..(n + 1) -> BOOLEAN],
                cs \in GapConnectors(n),
                open \in BOOLEAN} :
           n \in 1..MaxHops}

\* the key a and a connector with a backslash inside it: followed, after
\* an optional space, by a newline and the rest of the hop on the next line,
\* or by other text on the same line
EscapeDocs ==
    {<<"a", " ">> \o head \o <<"\\">> \o sp \o rest :
        head \in {<<"-", "-">>, <<"<", "-">>},
        sp \in {<<>>, <<" ">>},
        rest \in {<<"\n">> \o indent \o tail :
                      indent \in {<<>>, <<" ">>},
                      tail \in {<<">", " ", "b">>, <<"-", " ", "b">>, <<"b">>}}
                 \cup {<<"x">>, <<"x", "\n", "z">>, <<">", " ", "b", "\n", "z">>}}

\* the key a with a scalar value, followed on the line by a map, by a
\* separator and a map, or by no map
PrimaryDocs ==
    {<<"a", ":", " ">> \o scalar \o sep \o rest :
        scalar \in {<<"b">>, <<"5">>, <<"n", "u", "l", "l">>,
                    <<"t", "r", "u", "e">>, <<"\"", "b", "\"">>, <<"'", "b", "'">>},
        sep \in {<<>>, <<" ">>, <<";">>, <<"\n">>},
        rest \in {<<>>, <<"{", "}">>, <<"{", "c", "}">>, <<"\n", "d">>}}

\* the edge group (a -> b) with an edge index of up to MaxLen runes after [
IndexDocs ==
    {<<"(", "a", " ", "-", ">", " ", "b", ")", "[">> \o body :
        body \in SeqsUpTo({"1", "*", "x", "]"}, MaxLen)}

\* an edge group, empty or of one key, with one rune after the [ of its
\* edge index
WideIndexDocs ==
    {<<"(">> \o key \o <<")", "[">> \o <<r>> :
        key \in {<<>>, <<"a">>}, r \in {"x", Wide2, Wide4}}

\* the block comment c at file scope or in the array of the key a, with
\* nothing, a word, or a quoted word and a word after it on its line
BlockCommentDocs ==
    {ends[1] \o <<"\"", "\"", "\"", "c", "\"", "\"", "\"">> \o rest \o ends[2] :
        ends \in {<<<<>>, <<>>>>, <<<<"a", ":", " ", "[">>, <<"]">>>>},
        rest \in {<<>>, <<"x">>, <<" ", "x">>, <<" ", "\"", "b", "\"">>,
                  <<" ", "\"", "b", "\"", " ", "x">>}}

\* the document that opens the maps and arrays of stack one inside the
\* other and has, in the innermost, the construct closed (a map or a block
\* comment, opened and closed again, or nothing) and then a block string of
\* two lines, x and y, the second without indent; then it closes the stack
DepthDoc(stack, closed) ==
    LET inArray(i) == i > 1 /\ stack[i - 1] = "["
        key(i, r) == IF inArray(i) THEN <<>>
                     ELSE IF r = "{" THEN <<"a">> ELSE <<"a", ":">>
        last == Len(stack) + 1
        closer(r) == IF r = "{" THEN <<"}">> ELSE <<"]">>
    IN  Flatten([i \in 1..Len(stack) |-> key(i, stack[i]) \o <<stack[i]>>])
            \o (CASE closed = "{" -> key(last, "{") \o <<"{", "}", ";">>
                  [] closed = "\"" -> <<"\"", "\"", "\"", "c", "\"", "\"", "\"">>
                  [] OTHER -> <<>>)
            \o key(last, "|") \o <<"|", " ", "x", "\n", "y", "|">>
            \o Flatten([i \in 1..Len(stack) |-> closer(stack[last - i])])

\* documents with a block string inside up to MaxOpen maps and arrays
DepthDocs ==
    {DepthDoc(stack, closed) :
        stack \in SeqsUpTo({"{", "["}, MaxOpen), closed \in {"", "{", "\""}}

Inputs ==
    SeqsUpTo(Alphabet, MaxLen) \cup Corpus
        \cup {Flatten(ts) : ts \in SeqsUpTo(Tokens, MaxTokens)}
        \cup ChainDocs \cup DQDocs \cup ValueDocs \cup CommentDocs
        \cup GroupDocs \cup KeylessDocs \cup BraceDocs \cup OpenDocs
        \cup MissingValueDocs \cup GapDocs \cup EscapeDocs \cup PrimaryDocs
        \cup IndexDocs \cup BlockCommentDocs \cup DepthDocs
        \cup WideIndexDocs

HasWide(data) == \E i \in 1..Len(data) : RuneLen(data[i]) > 1

\* UTF-16 mode differs from byte mode only on documents with wide runes
Modes(data) == IF HasWide(data) THEN BOOLEAN ELSE {FALSE}

(***************************************************************************)
(* Parse runs: one call of Parse on one document                           *)
(***************************************************************************)
InitParse(docs, withFailure) ==
    /\ input \in docs
    /\ failAt \in IF withFailure THEN -1..Len(input) ELSE {-1}
    /\ \E u \in Modes(input) : p = NewParser(input, failAt, u)
    /\ result = NIL
    /\ pc = "start"
    /\ lastOp = NIL
    /\ mark = NIL

Finish(res) ==
    /\ p' = res.p
    /\ result' = [m |-> res.m, err |-> res.err]

DoParse ==
    /\ pc = "start"
    /\ Finish(ParseFrom(p))
    /\ pc' = "done"
    /\ UNCHANGED <<input, failAt, lastOp, mark>>

Next == DoParse

\* every document, read to its end
Init == InitParse(Inputs, FALSE)
Spec == Init /\ [][Next]_vars

\* documents whose reader fails after any number of runes, or not at all
IODocs == SeqsUpTo(Alphabet \ {Wide4, ";", "#"}, MaxLen) \cup Corpus
InitIO == InitParse(IODocs, TRUE)
SpecIO == InitIO /\ [][Next]_vars

(***************************************************************************)
(* Cursor runs: the cursor operations in any order the grammar may call    *)
(* them.  read is called with no peek outstanding; replay is called with   *)
(* the rune consumed last (by read, or by the commit of peekNotSpace),     *)
(* which is never a space.  lastOp and mark are history.                   *)
(***************************************************************************)
CursorAlphabet == {"a", "-", "\n", Wide4}

\* the runes the reader has still to deliver
Rest(rd) ==
    LET limit == IF rd.failAt >= 0 /\ rd.failAt < Len(rd.data) THEN rd.failAt
                 ELSE Len(rd.data)
    IN  SubSeq(rd.data, rd.idx + 1, limit)

\* the pending input: what read and peek deliver next, in order
Upcoming(q) == q.readahead \o Rest(q.reader)

Snapshot(q) == [pos |-> q.pos, upcoming |-> Upcoming(q)]

Op(name, r, eof) ==
    [op |-> name, r |-> r, eof |-> eof, n |-> lastOp.n + 1,
     \* the state the operation started from
     peeks |-> Len(p.lookahead), pending |-> Len(p.readahead),
     eofSeen |-> p.gEofSeen,
     expect |-> IF Upcoming(p) = <<>> THEN NoRune ELSE Head(Upcoming(p))]

InitCursor ==
    /\ input \in SeqsUpTo(CursorAlphabet, MaxLen)
    /\ failAt \in -1..Len(input)
    /\ \E u \in Modes(input) : p = NewParser(input, failAt, u)
    /\ result = NIL
    /\ pc = "cursor"
    /\ lastOp = [op |-> "new", r |-> NoRune, eof |-> FALSE, n |-> 0,
                 peeks |-> 0, pending |-> 0, eofSeen |-> FALSE,
                 expect |-> NoRune]
    /\ mark = [resolved |-> Snapshot(p), beforeRead |-> Snapshot(p),
               consumed |-> NoRune]

CursorStep ==
    /\ pc = "cursor"
    /\ lastOp.n < MaxOps
    /\ UNCHANGED <<input, failAt, result, pc>>

CRead ==
    /\ CursorStep
    /\ Len(p.lookahead) = 0
    /\ LET x == read(p)
       IN  /\ p' = x.p
           /\ lastOp' = Op("read", x.r, x.eof)
           /\ mark' = [resolved |-> Snapshot(x.p), beforeRead |-> Snapshot(p),
                       consumed |-> x.r]

CPeek ==
    /\ CursorStep
    /\ LET x == peek(p)
       IN  /\ p' = x.p
           /\ lastOp' = Op("peek", x.r, x.eof)
           /\ mark' = mark

CCommit ==
    /\ CursorStep
    /\ p' = commit(p)
    /\ lastOp' = Op("commit", NoRune, FALSE)
    /\ mark' = [mark EXCEPT !.resolved = Snapshot(p'),
                            !.consumed = IF Len(p.lookahead) > 0
                                         THEN p.lookahead[Len(p.lookahead)]
                                         ELSE @]

CRewind ==
    /\ CursorStep
    /\ p' = rewind(p)
    /\ lastOp' = Op("rewind", NoRune, FALSE)
    /\ mark' = mark

CReplay ==
    /\ CursorStep
    /\ Len(p.lookahead) = 0
    /\ lastOp.op \in {"read", "commit"}
    /\ mark.consumed # NoRune
    /\ ~IsSpace(mark.consumed)
    /\ p' = replay(p, mark.consumed)
    /\ lastOp' = [Op("replay", mark.consumed, FALSE) EXCEPT
                     !.expect = lastOp.op]
    /\ mark' = [mark EXCEPT !.resolved = Snapshot(p'), !.consumed = NoRune]

NextCursor == CRead \/ CPeek \/ CCommit \/ CRewind \/ CReplay

SpecCursor == InitCursor /\ [][NextCursor]_vars

(***************************************************************************)
(* Dedent runs: trimCommonIndent applied to a block text, and again to     *)
(* what it returned.  result is the text now, mark the text before the     *)
(* last call.                                                              *)
(***************************************************************************)
InitTrim ==
    /\ input \in SeqsUpTo({" ", "\t", "\n", "a"}, MaxText)
    /\ failAt = -1
    /\ p = NewParser(<<>>, -1, FALSE)
    /\ result = input
    /\ pc = "text"
    /\ lastOp = NIL
    /\ mark = NIL

DoTrim ==
    /\ pc \in {"text", "trimmed"}
    /\ mark' = result
    /\ result' = trimCommonIndent(result)
    /\ pc' = IF pc = "text" THEN "trimmed" ELSE "retrimmed"
    /\ UNCHANGED <<input, failAt, p, lastOp>>

SpecTrim == InitTrim /\ [][DoTrim]_vars

(***************************************************************************)
(* Reading the returned tree                                               *)
(***************************************************************************)
UnionOver(f, seq) == UNION {f[i] : i \in 1..Len(seq)}

\* kind and range of the node n and of every node below it
RECURSIVE NodeRanges(_)
NodeRanges(n) ==
    IF n = NIL THEN {}
    ELSE {[kind |-> n.kind, range |-> n.range]} \cup
         CASE n.kind \in {"map", "array"} ->
                  UnionOver([i \in 1..Len(n.nodes) |-> NodeRanges(n.nodes[i])],
                            n.nodes)
           [] n.kind = "key" ->
                  NodeRanges(n.key) \cup NodeRanges(n.edgeIndex)
                  \cup NodeRanges(n.edgeKey) \cup NodeRanges(n.primary)
                  \cup NodeRanges(n.value)
                  \cup UnionOver([i \in 1..Len(n.edges) |-> NodeRanges(n.edges[i])],
                                 n.edges)
           [] n.kind \in {"key_path", "substitution"} ->
                  UnionOver([i \in 1..Len(n.path) |-> NodeRanges(n.path[i])],
                            n.path)
           [] n.kind = "edge" -> NodeRanges(n.src) \cup NodeRanges(n.dst)
           [] n.kind \in {"unquoted_string", "double_quoted_string"} ->
                  UnionOver([i \in 1..Len(n.value) |->
                                 NodeRanges(n.value[i].substitution)],
                            n.value)
           [] OTHER -> {}

\* the position after the first i runes of the document
PosAt(i) == AdvanceString(Pos0, SubSeq(input, 1, i), p.utf16)

\* the number of runes before a position of the document, -1 if there is none
RunesBefore(pos) ==
    IF \E i \in 0..Len(input) : PosAt(i) = pos
    THEN CHOOSE i \in 0..Len(input) : PosAt(i) = pos
    ELSE -1

\* the range ends where its start arrives by advancing over runes of the
\* document
RoundTrip(range) ==
    /\ RunesBefore(range.start) >= 0
    /\ RunesBefore(range.end) >= RunesBefore(range.start)

\* the rune the range starts on and the last rune it covers
FirstRune(range) ==
    IF RunesBefore(range.start) \in 0..(Len(input) - 1)
    THEN input[RunesBefore(range.start) + 1] ELSE NoRune
LastRune(range) ==
    IF RunesBefore(range.end) \in 1..Len(input)
    THEN input[RunesBefore(range.end)] ELSE NoRune

HasError(f, start) ==
    \E i \in 1..Len(p.errs) : p.errs[i].f = f /\ p.errs[i].range.start = start

ErrorFormats == {p.errs[i].f : i \in 1..Len(p.errs)}

\* the text of a key path: the first string of every segment
PathText(k) == [i \in 1..Len(k.path) |-> ScalarString(k.path[i])]

(***************************************************************************)
(* Documents with a sibling after a line of arbitrary text: the line, then *)
(* the key z on a line of its own, at file scope and inside a nested map.  *)
(***************************************************************************)
LineAlphabet == {"a", " ", "-", ">", ":", ".", ")", "]", "*", "(", "<", "&"}

AtFileScope(line) == line \o <<"\n", "z">>
InNestedMap(line) ==
    <<"m", ":", "{", "\n">> \o line \o <<"\n", "z", "\n", "}">>

SiblingDocs ==
    {AtFileScope(l) : l \in SeqsUpTo(LineAlphabet, MaxLen)}
        \cup {InNestedMap(l) : l \in SeqsUpTo(LineAlphabet, MaxLen)}

InitSibling == InitParse(SiblingDocs, FALSE)
SpecSibling == InitSibling /\ [][Next]_vars

\* the map the line and z are children of
SiblingMap ==
    IF input[1] = "m" /\ Len(input) >= 3 /\ input[3] = "{"
    THEN result.m.nodes[1].value
    ELSE result.m

IsKeyZ(n) ==
    /\ n.kind = "key"
    /\ n.key # NIL
    /\ PathText(n.key) = <<<<"z">>>>
    /\ Len(n.edges) = 0

(***************************************************************************)
(* Properties                                                              *)
(***************************************************************************)
Done == pc = "done"

\* C1: Parse always returns a root map, and the error it returns is nil
\* exactly when no diagnostic was recorded and the reader did not fail.
C1_RootAndError ==
    Done =>
        /\ result.m # NIL
        /\ result.m.kind = "map"
        /\ (result.err = NIL) <=> (Len(p.errs) = 0 /\ p.ioError = NIL)
        /\ (p.ioError = NIL) <=> (failAt = -1)

C1_Witness ==
    /\ Done
    /\ failAt >= 0
    /\ Len(p.errs) = 0
    /\ result.err # NIL
    /\ result.m.kind = "map"
    /\ Len(result.m.nodes) > 0

\* C2: once a diagnostic was raised on a line of a map, the key on the next
\* line is still parsed and appended to that map as its last child.
C2_SiblingParsed ==
    Done /\ Len(p.errs) > 0 =>
        /\ SiblingMap.kind = "map"
        /\ Len(SiblingMap.nodes) > 0
        /\ IsKeyZ(SiblingMap.nodes[Len(SiblingMap.nodes)])

\* the ranges of the nodes below the root map
NestedRanges ==
    UnionOver([i \in 1..Len(result.m.nodes) |-> NodeRanges(result.m.nodes[i])],
              result.m.nodes)

unterminatedMap == "maps must be terminated with }"
unterminatedArray == "arrays must be terminated with ]"

\* C3: every node's range ends where its start arrives by advancing over
\* the runes the node consumed: a terminated nested map runs from its { to
\* just after its }, a terminated array from its [ to just after its ].
C3_RangeCoversConsumed ==
    Done =>
        /\ \A nr \in NodeRanges(result.m) : RoundTrip(nr.range)
        /\ \A nr \in NestedRanges :
              /\ nr.kind = "map" /\ ~HasError(unterminatedMap, nr.range.start)
                    => FirstRune(nr.range) = "{" /\ LastRune(nr.range) = "}"
              /\ nr.kind = "array" /\ ~HasError(unterminatedArray, nr.range.start)
                    => FirstRune(nr.range) = "[" /\ LastRune(nr.range) = "]"

\* C4: whenever a grammar function is entered or returns, no peek is
\* outstanding: the lookahead buffer is empty and lookaheadPos equals pos.
C4_NoPeekOutstanding == p.gUnresolved = 0

C4_Witness ==
    /\ Done
    /\ p.gCalled >= 12
    /\ p.gUnresolved = 0
    /\ Len(result.m.nodes) >= 2

\* C5: rewind undoes the peeks since the last commit or read: the position
\* is unchanged and the pending input is again what it was, the rewound
\* runes first and in order; read and peek deliver the pending input's head.
C5_RewindUndoesPeeks ==
    /\ lastOp.op = "rewind" =>
          /\ p.pos = mark.resolved.pos
          /\ Upcoming(p) = mark.resolved.upcoming
          /\ Len(p.lookahead) = 0
          /\ p.lookaheadPos = p.pos
    /\ lastOp.op \in {"read", "peek"} =>
          /\ lastOp.eof <=> lastOp.expect = NoRune
          /\ ~lastOp.eof => lastOp.r = lastOp.expect

C5_Witness ==
    /\ lastOp.op = "rewind"
    /\ lastOp.peeks >= 1
    /\ lastOp.pending >= 1
    /\ Len(p.readahead) >= 2

\* C6: replay of the rune just read, with no peek outstanding, puts the
\* position back where it was before the read and makes the rune the next
\* one delivered.
C6_ReplayInvertsRead ==
    lastOp.op = "replay" /\ lastOp.expect = "read" =>
        /\ p.pos = mark.beforeRead.pos
        /\ Upcoming(p) = mark.beforeRead.upcoming
        /\ Head(Upcoming(p)) = lastOp.r
        /\ Len(p.lookahead) = 0
        /\ p.lookaheadPos = p.pos

C6_Witness ==
    /\ lastOp.op = "replay"
    /\ lastOp.expect = "read"
    /\ lastOp.r = Wide4
    /\ p.pos # Pos0

\* C7 as stated: once a read or peek has reported end-of-stream, no later
\* read or peek delivers a rune, and the reader is not called again.
C7_EofSticky == p.gLateRunes = 0 /\ p.reader.lateCalls = 0

\* C7 amended: once a read or peek has reported end-of-stream the reader is
\* not called again; a later read or peek delivers a rune only from the
\* pending input the rewind at end-of-stream put back, and reports
\* end-of-stream when none is pending.
C7_EofStickyAtReader ==
    /\ p.reader.lateCalls = 0
    /\ p.gEofSeen => p.ioerr
    /\ lastOp.op \in {"read", "peek"} /\ lastOp.eofSeen =>
          (lastOp.eof <=> lastOp.pending = 0)

C7_Witness ==
    /\ lastOp.op = "read"
    /\ lastOp.eofSeen
    /\ ~lastOp.eof
    /\ p.gLateRunes > 0

\* the parse of the runes the reader delivered before it failed
Truncated == Parse(SubSeq(input, 1, failAt), -1, p.utf16)

\* C8: a fatal error is recorded only when the reader fails other than by
\* end-of-stream; parsing then ends as at the end of the stream: the tree
\* and the diagnostics are those of the runes delivered before, one fatal
\* error is recorded, at the position of the failure, and the reader is not
\* called again.
C8_FatalStopsParse ==
    Done =>
        /\ failAt = -1 => p.ioError = NIL /\ p.gIOErrors = 0
        /\ failAt >= 0 =>
              /\ p.ioError # NIL
              /\ p.ioError.range.start = PosAt(failAt)
              /\ p.gIOErrors = 1
              /\ p.reader.lateCalls = 0
              /\ result.m = Truncated.m
              /\ p.errs = Truncated.p.errs

C8_Witness ==
    /\ Done
    /\ failAt \in 1..(Len(input) - 1)
    /\ p.ioError # NIL
    /\ p.gIOErrors = 1
    /\ Len(result.m.nodes) > 0
    /\ p.reader.idx = failAt

\* the only child of the root map, when it is a key
OnlyKey == result.m.nodes[1]

\* C9 as stated: x y yields a key with path x and one diagnostic
\* "unexpected text after unquoted string" covering the text after x.
C9_TrailingTextFlagged ==
    Done /\ input = DocXY =>
        /\ Len(result.m.nodes) = 1
        /\ OnlyKey.kind = "key"
        /\ OnlyKey.key # NIL
        /\ PathText(OnlyKey.key) = <<<<"x">>>>
        /\ Len(p.errs) = 1
        /\ p.errs[1].f = "unexpected text after %v"
        /\ p.errs[1].range = Range(PosAt(1), PosAt(3))

\* C9 amended: x y yields a key whose path is the one segment "x y", an
\* unquoted string covering the whole text, and no diagnostic.
C9_SpaceInsideKey ==
    Done /\ input = DocXY =>
        /\ Len(result.m.nodes) = 1
        /\ OnlyKey.kind = "key"
        /\ OnlyKey.key # NIL
        /\ Len(OnlyKey.key.path) = 1
        /\ PathText(OnlyKey.key) = <<<<"x", " ", "y">>>>
        /\ OnlyKey.key.path[1].kind = "unquoted_string"
        /\ OnlyKey.key.path[1].range = Range(PosAt(0), PosAt(3))
        /\ Len(p.errs) = 0
        /\ result.err = NIL

C9_Witness ==
    /\ Done
    /\ input = DocXY
    /\ Len(result.m.nodes) = 1
    /\ OnlyKey.key # NIL
    /\ Len(OnlyKey.key.path) = 1
    /\ Len(OnlyKey.edges) = 0

\* the key a -> b yields: one connection from a to b
OneEdgeAB ==
    /\ Len(result.m.nodes) = 1
    /\ OnlyKey.kind = "key"
    /\ OnlyKey.key = NIL
    /\ Len(OnlyKey.edges) = 1
    /\ OnlyKey.edges[1].src # NIL
    /\ OnlyKey.edges[1].dst # NIL
    /\ PathText(OnlyKey.edges[1].src) = <<<<"a">>>>
    /\ PathText(OnlyKey.edges[1].dst) = <<<<"b">>>>

\* C10 as stated: a -> b yields one key with one connection from a to b
\* whose arrowheads are both none.
C10_EdgeNoArrowheads ==
    Done /\ input = DocAB =>
        /\ OneEdgeAB
        /\ OnlyKey.edges[1].srcArrow = ""
        /\ OnlyKey.edges[1].dstArrow = ""

\* C10 amended: a -> b yields one key with one connection from a to b with
\* no source arrowhead and the destination arrowhead ">", and no diagnostic.
C10_EdgeDstArrowhead ==
    Done /\ input = DocAB =>
        /\ OneEdgeAB
        /\ OnlyKey.edges[1].srcArrow = ""
        /\ OnlyKey.edges[1].dstArrow = ">"
        /\ OnlyKey.edges[1].range = Range(PosAt(0), PosAt(6))
        /\ Len(p.errs) = 0

C10_Witness ==
    /\ Done
    /\ input = DocAB
    /\ Len(result.m.nodes) = 1
    /\ Len(OnlyKey.edges) = 1
    /\ OnlyKey.edges[1].dst # NIL

\* C11: a chain of n hops on one line yields one key with exactly n
\* connections; connection i goes from key i-1 to key i of the line, and its
\* destination is the key path the next connection has as source.
C11_ChainEdges ==
    Done /\ input \in ChainDocs =>
        /\ Len(result.m.nodes) = 1
        /\ OnlyKey.kind = "key"
        /\ Len(OnlyKey.edges) = (Len(input) - 1) \div 5
        /\ \A i \in 1..Len(OnlyKey.edges) :
               /\ OnlyKey.edges[i].src # NIL
               /\ OnlyKey.edges[i].dst # NIL
               /\ PathText(OnlyKey.edges[i].src) = <<<<input[5 * i - 4]>>>>
               /\ PathText(OnlyKey.edges[i].dst) = <<<<input[5 * i + 1]>>>>
               /\ i > 1 => OnlyKey.edges[i].src = OnlyKey.edges[i - 1].dst

C11_Witness ==
    /\ Done
    /\ input = <<"a", " ", "-", ">", " ", "b", " ", "-", ">", " ", "a">>
    /\ Len(result.m.nodes) = 1
    /\ Len(OnlyKey.edges) = 2
    /\ OnlyKey.edges[2].src # NIL
    /\ OnlyKey.edges[1].dst = OnlyKey.edges[2].src

\* the double quoted string of a document of DQDocs: the first key's value
\* after x:, else the first segment of the first key's path
DQNode ==
    IF Len(result.m.nodes) = 0 \/ result.m.nodes[1].kind # "key" THEN NIL
    ELSE IF input[1] = "x" THEN OnlyKey.value
    ELSE IF OnlyKey.key = NIL \/ Len(OnlyKey.key.path) = 0 THEN NIL
    ELSE OnlyKey.key.path[1]

\* the runes before the opening quote, and the runes from the quote to the
\* end of its line
DQStart == IF input[1] = "x" THEN 3 ELSE 0
DQBody ==
    SubSeq(input, DQStart + 2,
           IF \E i \in 1..Len(input) : input[i] = "\n"
           THEN (CHOOSE i \in 1..Len(input) :
                    input[i] = "\n" /\ \A j \in 1..(i - 1) : input[j] # "\n") - 1
           ELSE Len(input))
DQPlain == \A i \in 1..Len(input) : input[i] \notin {"\\", "$"}

C13_ClassifiedInOrder ==
    Done /\ input \in ValueDocs =>
        /\ Len(result.m.nodes) = 1
        /\ OnlyKey.kind = "key"
        /\ OnlyKey.value # NIL
        /\ LET text == SubSeq(input, 4, Len(input))
           IN  CASE text[1] = "\"" -> OnlyKey.value.kind = "double_quoted_string"
                 [] text[1] = "'" -> OnlyKey.value.kind = "single_quoted_string"
                 [] text[1] = "|" -> OnlyKey.value.kind = "block_string"
                 [] OTHER ->
                    IF EqualFold(text, <<"n", "u", "l", "l">>)
                    THEN OnlyKey.value.kind = "null"
                    ELSE IF EqualFold(text, <<"t", "r", "u", "e">>)
                    THEN /\ OnlyKey.value.kind = "boolean"
                         /\ OnlyKey.value.value = TRUE
                    ELSE IF EqualFold(text, <<"f", "a", "l", "s", "e">>)
                    THEN /\ OnlyKey.value.kind = "boolean"
                         /\ OnlyKey.value.value = FALSE
                    ELSE IF RatSetString(text).ok
                    THEN /\ OnlyKey.value.kind = "number"
                         /\ OnlyKey.value.raw = text
                         /\ OnlyKey.value.value.num = RatSetString(text).num
                         /\ OnlyKey.value.value.den = RatSetString(text).den
                    ELSE OnlyKey.value.kind = "unquoted_string"

\* C14: a line comment yields one comment node whose value is the text
\* between # and the end of the line without one leading space.
C14_CommentText ==
    Done /\ input \in CommentDocs =>
        LET first == IF input[1] = "x" THEN 4 ELSE 2
            last == IF input[Len(input)] = "z" /\ input[Len(input) - 1] = "\n"
                    THEN Len(input) - 2 ELSE Len(input)
            text == SubSeq(input, first, last)
            comments == {i \in 1..Len(result.m.nodes) :
                            result.m.nodes[i].kind = "comment"}
        IN  /\ Cardinality(comments) = 1
            /\ \A i \in comments :
                   /\ result.m.nodes[i].value =
                          IF Len(text) > 0 /\ text[1] = " " THEN Tail(text)
                          ELSE text
                   /\ result.m.nodes[i].range =
                          Range(PosAt(first - 2), PosAt(last))
            /\ Len(p.errs) = 0

C14_Witness ==
    /\ Done
    /\ input = DocComment
    /\ Len(result.m.nodes) = 1
    /\ OnlyKey.kind = "comment"
    /\ OnlyKey.value = <<"c", "o", "m", "m", "e", "n", "t">>

RECURSIVE Nodes(_)
Nodes(n) ==
    IF n = NIL THEN {}
    ELSE {n} \cup
         CASE n.kind \in {"map", "array"} ->
                  UnionOver([i \in 1..Len(n.nodes) |-> Nodes(n.nodes[i])], n.nodes)
           [] n.kind = "key" ->
                  Nodes(n.key) \cup Nodes(n.edgeIndex) \cup Nodes(n.edgeKey)
                  \cup Nodes(n.primary) \cup Nodes(n.value)
                  \cup UnionOver([i \in 1..Len(n.edges) |-> Nodes(n.edges[i])],
                                 n.edges)
           [] n.kind \in {"key_path", "substitution"} ->
                  UnionOver([i \in 1..Len(n.path) |-> Nodes(n.path[i])], n.path)
           [] n.kind = "edge" -> Nodes(n.src) \cup Nodes(n.dst)
           [] n.kind \in {"unquoted_string", "double_quoted_string"} ->
                  UnionOver([i \in 1..Len(n.value) |->
                                 Nodes(n.value[i].substitution)], n.value)
           [] OTHER -> {}

\* C16: in a document without escapes, no unquoted segment of a key path
\* holds a rune that ends an unquoted string in a key.
C16_KeyStopsAtTerminators ==
    Done /\ (\A i \in 1..Len(input) : input[i] # "\\") =>
        \A k \in Nodes(result.m) :
            k.kind \in {"key_path", "substitution"} =>
                \A i \in 1..Len(k.path) :
                    k.path[i].kind = "unquoted_string" =>
                        \A j \in 1..Len(ScalarString(k.path[i])) :
                            ScalarString(k.path[i])[j]
                                \notin topTerminators \cup keyTerminators

C19_BraceAtFileScope ==
    Done /\ input \in BraceDocs =>
        LET nested == Len(input) >= 2 /\ input[2] = "{"
            close == IF nested
                     THEN CHOOSE i \in 3..Len(input) :
                              input[i] = "}" /\ \A j \in 3..(i - 1) : input[j] # "}"
                     ELSE 0
            stray == {i \in (close + 1)..Len(input) : input[i] = "}"}
        IN  /\ Len(p.errs) = Cardinality(stray)
            /\ {p.errs[i].range : i \in 1..Len(p.errs)} =
                   {Range(PosAt(i - 1), PosAt(i)) : i \in stray}
            /\ ErrorFormats \subseteq
                   {"unexpected map termination character } in file map"}
            /\ \A i \in stray :
                   i < Len(input) /\ input[i + 1] \in {"a", "c"} =>
                       \E k \in 1..Len(result.m.nodes) :
                           /\ result.m.nodes[k].kind = "key"
                           /\ result.m.nodes[k].range.start = PosAt(i)
            /\ nested =>
                   /\ Len(result.m.nodes) = IF input[Len(input)] = "c" THEN 2 ELSE 1
                   /\ OnlyKey.kind = "key"
                   /\ OnlyKey.value # NIL
                   /\ OnlyKey.value.kind = "map"
                   /\ OnlyKey.value.range.start = PosAt(1)

C19_Witness ==
    /\ Done
    /\ input = <<"a", "{", "b", "}", "}", "c">>
    /\ Len(p.errs) = 1
    /\ Len(result.m.nodes) = 2
    /\ OnlyKey.value # NIL
    /\ OnlyKey.value.kind = "map"
    /\ Len(OnlyKey.value.nodes) = 1

\* C20: a document that ends inside open maps, arrays, a block string or a
\* block comment records one "must be terminated" diagnostic for each of
\* them, from the construct's opening to the end of the document, and
\* nothing else; the tree holds the node of every open construct, starting
\* at its opening, with the children or the text read before the end.  A
\* document that ends at file scope records nothing.
C20_OpenAtEndOfStream ==
    Done /\ input \in OpenDocs =>
        \A stack \in SeqsUpTo({"{", "["}, MaxOpen), sib \in {<<>>, <<"b", ";">>},
           leaf \in {"", "{", "[", "|", "\""} :
            input = OpenDoc(stack, sib, leaf) =>
                LET end == PosAt(Len(input))
                    opens == {i \in 1..Len(input) : input[i] \in {"{", "[", "|"}}
                                 \cup {i \in 1..Len(input) :
                                           /\ input[i] = "\""
                                           /\ i = 1 \/ input[i - 1] # "\""}
                    format(i) ==
                        CASE input[i] = "{" -> unterminatedMap
                          [] input[i] = "[" -> unterminatedArray
                          [] input[i] = "|" ->
                                 "block string must be terminated with %v"
                          [] OTHER ->
                                 "block comments must be terminated with \"\"\""
                    kind(i) ==
                        CASE input[i] = "{" -> "map"
                          [] input[i] = "[" -> "array"
                          [] input[i] = "|" -> "block_string"
                          [] OTHER -> "block_comment"
                    \* the children read before the end: the elements sib in
                    \* the innermost of stack, and the construct opened inside
                    children(depth) ==
                        (IF depth = Len(stack) THEN Len(sib) \div 2 ELSE 0)
                            + IF Cardinality(opens) > depth THEN 1 ELSE 0
                IN  /\ Cardinality(opens) = Len(stack) + IF leaf = "" THEN 0 ELSE 1
                    /\ Len(p.errs) = Cardinality(opens)
                    /\ \A i \in opens :
                           \E e \in 1..Len(p.errs) :
                               /\ p.errs[e].f = format(i)
                               /\ p.errs[e].range = Range(PosAt(i - 1), end)
                    /\ \A i \in opens :
                           \E n \in Nodes(result.m) :
                               /\ n.kind = kind(i)
                               /\ n.range.start = PosAt(i - 1)
                               /\ n.kind \in {"map", "array"} =>
                                      Len(n.nodes) =
                                          children(Cardinality({j \in opens : j <= i}))
                               /\ n.kind \in {"block_string", "block_comment"}
                                      => n.value = <<"x">>
                    /\ Len(result.m.nodes) = children(0)

\* a block string left open in the map of the key a, after the key b
C20_Witness ==
    /\ Done
    /\ input = OpenDoc(<<"{">>, <<"b", ";">>, "|")
    /\ Len(p.errs) = 2
    /\ Len(result.m.nodes) = 1
    /\ OnlyKey.kind = "key"
    /\ OnlyKey.value.kind = "map"
    /\ Len(OnlyKey.value.nodes) = 2
    /\ OnlyKey.value.nodes[2].value.kind = "block_string"

\* C21: a key and a colon with no value on the line record exactly one
\* "missing value after colon" diagnostic, whose range is the colon, and
\* the key is a child of the map, without a value.
C21_MissingValueAtColon ==
    Done /\ input \in MissingValueDocs =>
        /\ Cardinality({i \in 1..Len(p.errs) :
                            p.errs[i].f = "missing value after colon"}) = 1
        /\ \A i \in 1..Len(p.errs) :
               p.errs[i].f = "missing value after colon" =>
                   p.errs[i].range = Range(PosAt(1), PosAt(2))
        /\ Len(result.m.nodes) >= 1
        /\ OnlyKey.kind = "key"
        /\ OnlyKey.key # NIL
        /\ PathText(OnlyKey.key) = <<<<"a">>>>
        /\ OnlyKey.value = NIL
        /\ OnlyKey.primary = NIL

\* the connections of the only key of the document, none without a key
OnlyEdges == IF Len(result.m.nodes) > 0 THEN OnlyKey.edges ELSE <<>>

\* the number of diagnostics with the format f
Diagnosed(f) == Cardinality({i \in 1..Len(p.errs) : p.errs[i].f = f})

\* C22 as stated: a chain with missing keys has a connection for every
\* hop, a "connection missing source" diagnostic when the first key is
\* missing and a "connection missing destination" diagnostic for every hop
\* without a destination.
C22_GapsKeepChain ==
    Done /\ input \in GapDocs =>
        \A n \in 1..MaxHops :
            \A ks \in [1..(n + 1) -> BOOLEAN],
               cs \in GapConnectors(n), open \in BOOLEAN :
                input = GapDoc(ks, cs, open) =>
                    /\ Len(OnlyEdges) = n
                    /\ ~ks[1] => Diagnosed("connection missing source") >= 1
                    /\ Diagnosed("connection missing destination") =
                           Cardinality({i \in 1..n : ~ks[i + 1]})

\* C22 amended: every hop whose connector is followed by a rune has a
\* connection, with the keys of the line as source and destination or
\* without them; each hop without a source, the first or a later one,
\* records "connection missing source" and each of these hops without a
\* destination "connection missing destination".  A last hop whose
\* connector - ends the document records "unterminated connection" and has
\* no connection; a key without connections is not a child of the map.
C22_GapsReported ==
    Done /\ input \in GapDocs =>
        \A n \in 1..MaxHops :
            \A ks \in [1..(n + 1) -> BOOLEAN],
               cs \in GapConnectors(n), open \in BOOLEAN :
                input = GapDoc(ks, cs, open) =>
                    LET cut == open /\ ~ks[n + 1] /\ cs[n] = <<"-", "-">>
                        hops == IF cut THEN n - 1 ELSE n
                        text(k) == IF k = NIL THEN <<>> ELSE PathText(k)[1]
                        key(i) == IF ks[i] THEN <<Lower[i]>> ELSE <<>>
                    IN  /\ Len(result.m.nodes) = IF hops = 0 THEN 0 ELSE 1
                        /\ Len(OnlyEdges) = hops
                        /\ \A i \in 1..hops :
                               /\ text(OnlyEdges[i].src) = key(i)
                               /\ text(OnlyEdges[i].dst) = key(i + 1)
                        /\ Diagnosed("connection missing source") =
                               Cardinality({i \in 1..n : ~ks[i]})
                        /\ Diagnosed("connection missing destination") =
                               Cardinality({i \in 1..hops : ~ks[i + 1]})
                        /\ Diagnosed("unterminated connection") = IF cut THEN 1 ELSE 0
                        /\ ErrorFormats \subseteq {"connection missing source",
                                                   "connection missing destination",
                                                   "unterminated connection"}

\* a chain of two hops: the first without a destination, the second without
\* a source
C22_Witness ==
    /\ Done
    /\ input = <<"a", " ", "-", ">", " ", "-", ">", " ", "c">>
    /\ Len(OnlyEdges) = 2
    /\ OnlyEdges[1].dst = NIL
    /\ OnlyEdges[2].src = NIL
    /\ OnlyEdges[2].dst # NIL
    /\ Diagnosed("connection missing source") = 1
    /\ Diagnosed("connection missing destination") = 1

C24_PrimaryBeforeMap ==
    Done /\ input \in PrimaryDocs =>
        LET braces == {i \in 1..Len(input) : input[i] = "{"}
            brace == IF braces = {} THEN 0 ELSE CHOOSE i \in braces : TRUE
            sameLine == \A j \in 1..brace : input[j] \notin {";", "\n"}
            kind == CASE input[4] = "b" -> "unquoted_string"
                      [] input[4] = "5" -> "number"
                      [] input[4] = "n" -> "null"
                      [] input[4] = "t" -> "boolean"
                      [] input[4] = "\"" -> "double_quoted_string"
                      [] OTHER -> "single_quoted_string"
        IN  /\ Len(result.m.nodes) >= 1
            /\ OnlyKey.kind = "key"
            /\ PathText(OnlyKey.key) = <<<<"a">>>>
            /\ IF brace # 0 /\ sameLine
               THEN /\ OnlyKey.primary # NIL
                    /\ OnlyKey.primary.kind = kind
                    /\ OnlyKey.primary.range.start = PosAt(3)
                    /\ OnlyKey.value # NIL
                    /\ OnlyKey.value.kind = "map"
                    /\ OnlyKey.value.range.start = PosAt(brace - 1)
                    /\ Len(OnlyKey.value.nodes) = Len(input) - brace - 1
                    /\ Len(result.m.nodes) = 1
                    /\ Len(p.errs) = 0
               ELSE /\ OnlyKey.primary = NIL
                    /\ OnlyKey.value # NIL
                    /\ OnlyKey.value.kind = kind
                    /\ OnlyKey.value.range.start = PosAt(3)

\* the number 5 as primary value before the map with the key c
C24_Witness ==
    /\ Done
    /\ input = <<"a", ":", " ", "5", " ", "{", "c", "}">>
    /\ OnlyKey.primary # NIL
    /\ OnlyKey.primary.kind = "number"
    /\ OnlyKey.value.kind = "map"
    /\ Len(OnlyKey.value.nodes) = 1

\* C25: the edge index of every key of the returned tree has either an
\* integer that is not negative or the wildcard marker, not both and not
\* neither, whatever was recorded for it.
C25_IndexIntOrGlob ==
    Done =>
        \A k \in Nodes(result.m) :
            k.kind = "key" /\ k.edgeIndex # NIL =>
                /\ k.edgeIndex.hasInt # k.edgeIndex.glob
                /\ k.edgeIndex.hasInt => k.edgeIndex.int >= 0

\* C26 as stated: nothing that follows a block comment on its line records
\* "unexpected text after ...".
C26_NothingUnexpectedOnLine ==
    Done /\ input \in BlockCommentDocs =>
        Diagnosed("unexpected text after %v") = 0

\* C26 amended: no "unexpected text after block comment" is recorded; what
\* follows the block comment on its line is the next node of the map or
\* array, and the text after that node is unexpected text after it.
C26_NothingUnexpectedAfterComment ==
    Done /\ input \in BlockCommentDocs =>
        LET inArray == input[1] = "a"
            nodes == IF inArray THEN OnlyKey.value.nodes ELSE result.m.nodes
            quote == IF inArray THEN 13 ELSE 9
            follows == Len(input) - (IF inArray THEN 12 ELSE 7)
        IN  /\ Len(result.m.nodes) >= 1
            /\ Len(nodes) = IF follows = 0 THEN 1 ELSE 2
            /\ nodes[1].kind = "block_comment"
            /\ nodes[1].value = <<"c">>
            /\ follows > 0 =>
                   nodes[2].kind = IF ~inArray THEN "key"
                                   ELSE IF follows > 2 THEN "double_quoted_string"
                                   ELSE "unquoted_string"
            /\ \A i \in 1..Len(p.errs) :
                   /\ p.errs[i].f = "unexpected text after %v"
                   /\ p.errs[i].v # <<Type(nodes[1])>>
                   /\ p.errs[i].v = <<Type(nodes[2])>>
                   /\ p.errs[i].range.start = PosAt(quote + 2)
            /\ Len(p.errs) = IF follows = 6 THEN 1 ELSE 0

\* the block comment, the string "b" and the word x in an array: x is
\* unexpected text after the string
C26_Witness ==
    /\ Done
    /\ input = <<"a", ":", " ", "[", "\"", "\"", "\"", "c", "\"", "\"", "\"",
                 " ", "\"", "b", "\"", " ", "x", "]">>
    /\ Len(OnlyKey.value.nodes) = 2
    /\ OnlyKey.value.nodes[1].kind = "block_comment"
    /\ Len(p.errs) = 1

\* C27: the depth counter is never negative and is 0 when Parse has
\* returned, also after the end of the stream inside open constructs.  It
\* counts the constructs that are open: the first line of a block string
\* gets two spaces of indent for the block string and for each map and
\* array open around it, and none for a map or block comment that was
\* closed before it or for the file map.
C27_DepthCountsOpen ==
    /\ p.depth >= 0
    /\ Done => p.depth = 0
    /\ Done /\ input \in DepthDocs =>
           LET opens == {i \in 1..(Len(input) - 1) :
                             \/ input[i] = "["
                             \/ input[i] = "{" /\ input[i + 1] # "}"}
           IN  /\ Len(p.errs) = 0
               /\ \E n \in Nodes(result.m) :
                      /\ n.kind = "block_string"
                      /\ n.value = Repeat(" ", 2 * (Cardinality(opens) + 1))
                                       \o <<"x", "\n", "y">>

\* a block string in the map of the key a, after a map that was closed
C27_Witness ==
    /\ Done
    /\ input = DepthDoc(<<"{">>, "{")
    /\ p.depth = 0
    /\ Len(p.errs) = 0
    /\ OnlyKey.value.kind = "map"
    /\ Len(OnlyKey.value.nodes) = 2
    /\ OnlyKey.value.nodes[2].value.kind = "block_string"
    /\ OnlyKey.value.nodes[2].value.value =
           <<" ", " ", " ", " ", "x", "\n", "y">>

\* C29: for every input no newline is subtracted from a position, neither by
\* replay nor for the start of a diagnostic, and every rune subtracted was
\* consumed just before the position, so that the line, the column and the
\* byte offset at which a diagnostic starts never fall below zero.
C29_NoUnderflow ==
    /\ ~p.gPanic
    /\ \A i \in 1..Len(p.errs) :
           /\ p.errs[i].range.start # PanicPos
           /\ p.errs[i].range.start.line >= 0
           /\ p.errs[i].range.start.column >= 0
           /\ p.errs[i].range.start.byte >= 0

\* C30: when Parse returns and the reader did not fail, every rune of the
\* input was taken from the reader once and consumed in order: the pending
\* buffer and the peek buffer are empty, and the confirmed position and the
\* peek position are the initial position advanced over the whole input.
C30_AllConsumedAtReturn ==
    Done /\ failAt = -1 =>
        /\ p.readahead = <<>>
        /\ p.lookahead = <<>>
        /\ p.pos = PosAt(Len(input))
        /\ p.lookaheadPos = p.pos
        /\ p.reader.idx = Len(input)
        /\ p.reader.calls = Len(input) + 1

\* two lines, with peeks taken back at the end of the first
C30_Witness ==
    /\ Done
    /\ failAt = -1
    /\ input = <<"a", ":", " ", "b", "\n", "d">>
    /\ p.readahead = <<>>
    /\ p.lookahead = <<>>
    /\ p.pos = [line |-> 1, column |-> 1, byte |-> 6]
    /\ p.reader.idx = 6

\* C28: on every input each iteration of a parsing loop (map, array, key
\* path, connection chain, connection, edge index, string and comment loops)
\* that goes on to a next iteration has taken at least one rune from the
\* stream, so Parse returns.
C28_LoopsProgress == p.gStalled = 0

\* a chain with a gap: the parsing loops went on six times and two
\* diagnostics were recorded
C28_Witness ==
    /\ Done
    /\ input = <<"a", " ", "-", ">", " ", "-", ">", " ", "c">>
    /\ p.gIterated = 6
    /\ p.gStalled = 0
    /\ Len(p.errs) = 2

====
